---- MODULE Spec2Model ----
(***************************************************************************)
(* Model of the vocabulary pipeline of onewave-hackathon:                  *)
(*   - parseVocabularyResponse, createVocabularyFromLyrics and the         *)
(*     fallback extractor of src/src/vocabulary.ts;                        *)
(*   - the D1 persistence of src/src/db/d1.ts and the Postgres             *)
(*     persistence of the settings module (src/unnamed/part_004).          *)
(*                                                                         *)
(* A JavaScript string is a sequence of one-character strings.  A text    *)
(* produced by the model is a sequence of lexical units: the structural    *)
(* characters, quotes, the characters of string literals, one-digit        *)
(* numbers, null, object keys ("word:" stands for `"word":`) and "junk"    *)
(* for any bare word that is not JSON.  An optional field is <<>> when     *)
(* undefined and <<v>> when present.                                       *)
(***************************************************************************)
EXTENDS Integers, Sequences, FiniteSets, TLC

VARIABLES
    \* parseVocabularyResponse applied to one input
    text,        \* the text handed to the parser
    modelItems,  \* the array the model meant to emit (input of the run)
    maxWords,    \* parser argument
    minLength,   \* parser argument
    parsed       \* what the call did: [status, error, entries]

VARIABLES
    \* one call createVocabularyFromLyrics(lyrics, options, env)
    pc,          \* "idle" | "call" | "streaming" | "structured" | "done"
    apiKey,      \* env.GEMINI_API_KEY: None, Some(<<>>) (empty) or Some(key)
    lyrics,      \* the lyrics argument
    options,     \* the options argument: [maxWords, minLength], each optional
    pending,     \* chunks the streaming call has yet to yield
    structItems, \* result.items of the structured call once it resolved
    calls,       \* how often each stage was invoked: [stream, structured, fallback]
    outcome      \* what the call did: [status, error, entries, stage]

VARIABLES
    \* the database and the save calls running against it
    backend,         \* "d1" (db/d1.ts) or "pg" (the settings module): which save path runs
    userWords,       \* table user_words: rows [id, user, word, meaning, count]
    wordSynonyms,    \* table word_synonyms: rows [id, wordId, synonym]
    vocabularyLists, \* table vocabulary_lists, in insertion order: [id, user, title, entries]
    nextId,          \* source of fresh row ids (generateUUID / gen_random_uuid)
    procs,           \* per save call: its arguments, position and local variables
    saveLog          \* the save calls started so far, each with the tables as it found them

VARIABLES
    \* the HTTP surface of routes/v1.ts and the tables behind it
    env,         \* the bindings: [jwtSecret, geminiKey, db]; the keys are optional, db is
                 \* whether the D1 binding is there
    req,         \* the request being served: its headers, body and the handler's position
    resp,        \* the response sent: [status, code, ...]
    trace,       \* database statements and external calls made for the request, in order
    settings,    \* table user_vocabulary_settings: rows [user, language, level, max_words, min_length]
    history,     \* table user_music_history, in insertion order
    users,       \* table users: rows [id, provider, providerUserId]
    logins,      \* per login callback: its position, local variables and result
    defaults,    \* the module-level object DEFAULT_VOCABULARY_OPTIONS
    got          \* what getVocabularyOptionsForUser returned, as the caller holds it

parseVars == <<text, modelItems, maxWords, minLength, parsed>>
dbVars == <<backend, userWords, wordSynonyms, vocabularyLists, nextId, procs, saveLog>>
orchVars == <<pc, apiKey, lyrics, options, pending, structItems, calls, outcome>>
apiVars == <<env, req, resp, trace, settings, history, users, logins, defaults, got>>
vars == <<parseVars, orchVars, dbVars, apiVars>>

----------------------------------------------------------------------------
(* Generic helpers                                                         *)

None == <<>>
Some(x) == <<x>>
Min(a, b) == IF a <= b THEN a ELSE b

RECURSIVE SeqsUpTo(_, _)
SeqsUpTo(S, n) ==
    IF n = 0 THEN {<<>>}
    ELSE LET shorter == SeqsUpTo(S, n - 1)
         IN shorter \cup {Append(s, x) : s \in {q \in shorter : Len(q) = n - 1}, x \in S}

RECURSIVE Concat(_)
Concat(ss) == IF ss = <<>> THEN <<>> ELSE Head(ss) \o Concat(Tail(ss))

----------------------------------------------------------------------------
(* JavaScript strings                                                      *)

WhiteSpace == {" "}

RECURSIVE TrimStart(_)
TrimStart(s) ==
    IF s # <<>> /\ Head(s) \in WhiteSpace THEN TrimStart(Tail(s)) ELSE s

RECURSIVE TrimEnd(_)
TrimEnd(s) ==
    IF s # <<>> /\ s[Len(s)] \in WhiteSpace THEN TrimEnd(SubSeq(s, 1, Len(s) - 1)) ELSE s

\* String.prototype.trim
Trim(s) == TrimEnd(TrimStart(s))

LowerChar(c) ==
    CASE c = "A" -> "a" [] c = "B" -> "b" [] c = "C" -> "c" [] OTHER -> c

\* String.prototype.toLowerCase
ToLowerCase(s) == [i \in DOMAIN s |-> LowerChar(s[i])]

\* Array.prototype.slice(0, n) for n >= 0
Slice0(s, n) == SubSeq(s, 1, Min(n, Len(s)))

----------------------------------------------------------------------------
(* JavaScript values as JSON.parse builds them                             *)

JNull == [k |-> "null", n |-> 0, s |-> <<>>, a |-> <<>>, o |-> <<>>]
JNum(x) == [JNull EXCEPT !.k = "number", !.n = x]
JStr(cs) == [JNull EXCEPT !.k = "string", !.s = cs]
JArr(items) == [JNull EXCEPT !.k = "array", !.a = items]
\* members: a sequence of [key, val] in source order
JObj(members) == [JNull EXCEPT !.k = "object", !.o = members]

\* v[key]: the last member of that key wins, as in JSON.parse; None when undefined
RECURSIVE LastMember(_, _)
LastMember(members, key) ==
    IF members = <<>> THEN None
    ELSE IF members[Len(members)].key = key THEN Some(members[Len(members)].val)
         ELSE LastMember(SubSeq(members, 1, Len(members) - 1), key)

Prop(v, key) == IF v.k = "object" THEN LastMember(v.o, key) ELSE None

IsString(opt) == opt # None /\ opt[1].k = "string"
IsNumber(opt) == opt # None /\ opt[1].k = "number"
IsArray(opt) == opt # None /\ opt[1].k = "array"

----------------------------------------------------------------------------
(* Lexical units of a text, JSON.stringify and JSON.parse                  *)

DigitUnits == {"0", "1", "2", "3", "4", "5", "6", "7", "8", "9"}
DigitValue(u) ==
    CASE u = "0" -> 0 [] u = "1" -> 1 [] u = "2" -> 2 [] u = "3" -> 3 [] u = "4" -> 4
      [] u = "5" -> 5 [] u = "6" -> 6 [] u = "7" -> 7 [] u = "8" -> 8 [] u = "9" -> 9
DigitUnit(x) == CHOOSE u \in DigitUnits : DigitValue(u) = x

KeyNames == {"word", "score", "meaning", "example", "synonyms", "occurrences", "items"}
KeyUnit(name) ==
    CASE name = "word" -> "word:" [] name = "score" -> "score:"
      [] name = "meaning" -> "meaning:" [] name = "example" -> "example:"
      [] name = "synonyms" -> "synonyms:" [] name = "occurrences" -> "occurrences:"
      [] name = "items" -> "items:"
KeyUnits == {KeyUnit(name) : name \in KeyNames}
KeyName(u) == CHOOSE name \in KeyNames : KeyUnit(name) = u

RECURSIVE Stringify(_)
RECURSIVE StringifyItems(_)
RECURSIVE StringifyMembers(_)
\* JSON.stringify
Stringify(v) ==
    CASE v.k = "null" -> <<"null">>
      [] v.k = "number" -> <<DigitUnit(v.n)>>
      [] v.k = "string" -> <<"\"">> \o v.s \o <<"\"">>
      [] v.k = "array" -> <<"[">> \o StringifyItems(v.a) \o <<"]">>
      [] v.k = "object" -> <<"{">> \o StringifyMembers(v.o) \o <<"}">>
StringifyItems(items) ==
    IF items = <<>> THEN <<>>
    ELSE IF Len(items) = 1 THEN Stringify(items[1])
         ELSE Stringify(items[1]) \o <<",">> \o StringifyItems(Tail(items))
StringifyMembers(members) ==
    IF members = <<>> THEN <<>>
    ELSE LET m == <<KeyUnit(members[1].key)>> \o Stringify(members[1].val)
         IN IF Len(members) = 1 THEN m ELSE m \o <<",">> \o StringifyMembers(Tail(members))

ParseFail == [ok |-> FALSE, val |-> JNull, next |-> 0]
ParseOk(v, i) == [ok |-> TRUE, val |-> v, next |-> i]

RECURSIVE SkipWs(_, _)
SkipWs(t, i) == IF i <= Len(t) /\ t[i] \in WhiteSpace THEN SkipWs(t, i + 1) ELSE i

RECURSIVE IndexFrom(_, _, _)
\* the first index >= i of unit u in t, 0 when there is none
IndexFrom(t, u, i) ==
    IF i > Len(t) THEN 0 ELSE IF t[i] = u THEN i ELSE IndexFrom(t, u, i + 1)

RECURSIVE ParseValue(_, _)
RECURSIVE ParseElements(_, _, _)
RECURSIVE ParseMembers(_, _, _)
ParseValue(t, i) ==
    LET j == SkipWs(t, i) IN
    IF j > Len(t) THEN ParseFail
    ELSE CASE t[j] = "[" ->
                LET c == SkipWs(t, j + 1)
                IN IF c <= Len(t) /\ t[c] = "]" THEN ParseOk(JArr(<<>>), c + 1)
                   ELSE ParseElements(t, j + 1, <<>>)
           [] t[j] = "{" ->
                LET c == SkipWs(t, j + 1)
                IN IF c <= Len(t) /\ t[c] = "}" THEN ParseOk(JObj(<<>>), c + 1)
                   ELSE ParseMembers(t, j + 1, <<>>)
           [] t[j] = "\"" ->
                LET q == IndexFrom(t, "\"", j + 1)
                IN IF q = 0 THEN ParseFail
                   ELSE ParseOk(JStr(SubSeq(t, j + 1, q - 1)), q + 1)
           [] t[j] \in DigitUnits -> ParseOk(JNum(DigitValue(t[j])), j + 1)
           [] t[j] = "null" -> ParseOk(JNull, j + 1)
           [] OTHER -> ParseFail
ParseElements(t, i, acc) ==
    LET r == ParseValue(t, i) IN
    IF ~r.ok THEN ParseFail
    ELSE LET c == SkipWs(t, r.next) IN
         IF c > Len(t) THEN ParseFail
         ELSE IF t[c] = "," THEN ParseElements(t, c + 1, Append(acc, r.val))
         ELSE IF t[c] = "]" THEN ParseOk(JArr(Append(acc, r.val)), c + 1)
         ELSE ParseFail
ParseMembers(t, i, acc) ==
    LET j == SkipWs(t, i) IN
    IF j > Len(t) \/ t[j] \notin KeyUnits THEN ParseFail
    ELSE LET r == ParseValue(t, j + 1) IN
         IF ~r.ok THEN ParseFail
         ELSE LET c == SkipWs(t, r.next)
                  m == [key |-> KeyName(t[j]), val |-> r.val]
              IN IF c > Len(t) THEN ParseFail
                 ELSE IF t[c] = "," THEN ParseMembers(t, c + 1, Append(acc, m))
                 ELSE IF t[c] = "}" THEN ParseOk(JObj(Append(acc, m)), c + 1)
                 ELSE ParseFail

\* JSON.parse: [ok, val]; ok = FALSE when it throws SyntaxError
JSONParse(t) ==
    LET r == ParseValue(t, 1)
    IN IF r.ok /\ SkipWs(t, r.next) > Len(t) THEN [ok |-> TRUE, val |-> r.val]
       ELSE [ok |-> FALSE, val |-> JNull]

----------------------------------------------------------------------------
(* parseVocabularyResponse                                                 *)

RECURSIVE MatchClose(_, _, _)
\* the index where the bracket depth first returns to 0, scanning from i; 0 if never
MatchClose(t, i, depth) ==
    IF i > Len(t) THEN 0
    ELSE LET d == IF t[i] = "[" THEN depth + 1
                  ELSE IF t[i] = "]" THEN depth - 1 ELSE depth
         IN IF d = 0 THEN i ELSE MatchClose(t, i + 1, d)

ExtractJsonStr(trimmed) ==
    LET firstBracket == IndexFrom(trimmed, "[", 1) IN
    IF firstBracket = 0 THEN trimmed
    ELSE LET close == MatchClose(trimmed, firstBracket, 0)
         IN IF close = 0 THEN trimmed ELSE SubSeq(trimmed, firstBracket, close)

\* e != null && typeof e === "object" && typeof e.word === "string"
IsWordObject(e) == e.k \in {"object", "array"} /\ IsString(Prop(e, "word"))

IsStringValue(v) == v.k = "string"
IsNonEmpty(s) == Len(s) > 0

NormalizeSynonyms(raw) ==
    LET syn == Prop(raw, "synonyms") IN
    IF IsArray(syn)
    THEN LET strings == SelectSeq(syn[1].a, IsStringValue)
             trimmedSyns == [i \in DOMAIN strings |-> Trim(strings[i].s)]
             kept == SelectSeq(trimmedSyns, IsNonEmpty)
         IN IF Len(kept) = 0 THEN None ELSE Some(kept)
    ELSE None

NormalizeEntry(raw) ==
    [word |-> Trim(Prop(raw, "word")[1].s),
     score |-> IF IsNumber(Prop(raw, "score")) THEN Some(Prop(raw, "score")[1].n) ELSE None,
     meaning |-> IF IsString(Prop(raw, "meaning")) THEN Some(Prop(raw, "meaning")[1].s) ELSE None,
     example |-> IF IsString(Prop(raw, "example")) THEN Some(Prop(raw, "example")[1].s) ELSE None,
     synonyms |-> NormalizeSynonyms(raw),
     occurrences |-> None]

\* mutant: the length test is off by one
M_FilterMinLengthOffByOne(entries, minLen) ==
    LET LongEnough(e) == Len(e.word) + 1 >= minLen
    IN SelectSeq(entries, LongEnough)

FilterMinLength(entries, minLen) ==
    LET LongEnough(e) == Len(e.word) >= minLen
    IN SelectSeq(entries, LongEnough)

Normalized(list, minLen) ==
    LET objects == SelectSeq(list, IsWordObject)
    IN FilterMinLength([i \in DOMAIN objects |-> NormalizeEntry(objects[i])], minLen)

\* mutant: the count compares words without lower-casing them
M_CountExactCase(normalized, key) ==
    Cardinality({i \in DOMAIN normalized : normalized[i].word = key})

\* countByWord.get(key)
CountByWord(normalized, key) ==
    Cardinality({i \in DOMAIN normalized : ToLowerCase(normalized[i].word) = key})

RECURSIVE DedupeFrom(_, _)
DedupeFrom(entries, seen) ==
    IF entries = <<>> THEN <<>>
    ELSE LET key == ToLowerCase(Head(entries).word)
         IN IF key \in seen THEN DedupeFrom(Tail(entries), seen)
            ELSE <<Head(entries)>> \o DedupeFrom(Tail(entries), seen \cup {key})

RECURSIVE M_DedupeFromExact(_, _)
M_DedupeFromExact(entries, seen) ==
    IF entries = <<>> THEN <<>>
    ELSE LET key == Head(entries).word
         IN IF key \in seen THEN M_DedupeFromExact(Tail(entries), seen)
            ELSE <<Head(entries)>> \o M_DedupeFromExact(Tail(entries), seen \cup {key})

\* mutant: the seen-set is keyed by the word as written
M_DedupeCaseSensitive(normalized) == M_DedupeFromExact(normalized, {})

DedupeFirst(normalized) == DedupeFrom(normalized, {})

WithOccurrences(deduped, normalized) ==
    [i \in DOMAIN deduped |->
        [deduped[i] EXCEPT
            !.occurrences = Some(CountByWord(normalized, ToLowerCase(deduped[i].word)))]]

\* mutant: the slice keeps one entry too many
M_TruncateOffByOne(entries, maxW) == Slice0(entries, maxW + 1)

\* .slice(0, maxWords)
TruncateToMaxWords(entries, maxW) == Slice0(entries, maxW)

DefaultMaxWords == 30
DefaultMinLength == 2

Returned(status, error, entries) ==
    [status |-> status, error |-> error, entries |-> entries]

\* mutant: the SyntaxError of JSON.parse is rethrown as it is
M_RawSyntaxError == "Unexpected token o in JSON at position 1"

InvalidJsonError == "Gemini returned invalid JSON for vocabulary"

\* mutant: a parsed value that is no array is an error
M_NonArrayThrows(t, maxW, minLen) ==
    LET r == JSONParse(ExtractJsonStr(Trim(t)))
    IN IF ~r.ok \/ r.val.k # "array" THEN Returned("throw", InvalidJsonError, <<>>)
       ELSE LET normalized == Normalized(r.val.a, minLen)
            IN Returned("ok", "",
                        TruncateToMaxWords(
                            WithOccurrences(DedupeFirst(normalized), normalized), maxW))

parseVocabularyResponse(t, maxW, minLen) ==
    LET trimmed == Trim(t)
        jsonStr == ExtractJsonStr(trimmed)
        r == JSONParse(jsonStr)
    IN IF ~r.ok THEN Returned("throw", InvalidJsonError, <<>>)
       ELSE IF r.val.k # "array" THEN Returned("ok", "", <<>>)
       ELSE LET normalized == Normalized(r.val.a, minLen)
            IN Returned("ok", "",
                        TruncateToMaxWords(
                            WithOccurrences(DedupeFirst(normalized), normalized), maxW))

----------------------------------------------------------------------------
(* Inputs of the parser: what the model may emit                           *)

MaxItems == 3          \* longest array the model emits
MaxWordsBound == 2     \* maxWords ranges over 1..MaxWordsBound
MinLengthBound == 2    \* minLength ranges over 1..MinLengthBound

Member(key, val) == [key |-> key, val |-> val]

ModelElements ==
    { JObj(<<Member("word", JStr(<<"a", "b">>)), Member("score", JNum(8))>>),
      JObj(<<Member("word", JStr(<<"A", "b">>)), Member("score", JNum(5)),
             Member("meaning", JStr(<<"m">>))>>),
      JObj(<<Member("word", JStr(<<" ", "a", "B", " ">>)),
             Member("synonyms", JArr(<<JStr(<<"c">>), JStr(<<" ", "c">>), JStr(<<" ">>),
                                        JNum(3)>>))>>),
      JObj(<<Member("word", JStr(<<" ", "a">>)), Member("score", JNum(1))>>),
      JObj(<<Member("word", JStr(<<"b", "c">>)), Member("score", JNum(7)),
             Member("example", JStr(<<"b", " ", "c">>))>>),
      JObj(<<Member("word", JNum(5)), Member("score", JNum(2))>>),
      JNull }

Wrappers == {"plain", "fenced", "object"}

\* how the array sits in the text: bare, inside prose or a code fence, or as a field
Wrap(w, arrayText) ==
    CASE w = "plain" -> arrayText
      [] w = "fenced" -> <<" ", "junk", " ">> \o arrayText \o <<" ", "junk", " ">>
      [] w = "object" -> <<"{", "items:">> \o arrayText \o <<"}">>

\* texts that hold no array the parser can recover
OddTexts ==
    { <<"junk">>,                                   \* not valid json array
      <<"{", "}">>,
      <<>>,
      <<"5">>,
      <<"[", "junk", "]", " ", "[", "]">>,          \* prose in brackets before the array
      <<"[", "{", "word:", "\"", "a", "]", "b", "\"", "}", "]">>,   \* "]" inside a string
      <<"[", "{", "word:", "\"", "a", "b", "\"", "}">> }            \* array cut short

----------------------------------------------------------------------------
(* The tables and the statements run against them                          *)

Procs == {"p1", "p2"}

\* typeof e.occurrences === "number" && e.occurrences >= 1 ? e.occurrences : 1
Occurrences(e) ==
    IF e.occurrences # None /\ e.occurrences[1] >= 1 THEN e.occurrences[1] ELSE 1

\* SELECT id FROM user_words WHERE user_id = ? AND word = ?  (first row, or none)
SelectUserWordId(rows, user, word) ==
    LET hit == {r \in rows : r.user = user /\ r.word = word}
    IN IF hit = {} THEN None ELSE Some((CHOOSE r \in hit : TRUE).id)

\* mutant: the update overwrites the count instead of adding to it
M_UpdateOverwritesCount(rows, user, word, occ, meaning) ==
    {IF r.user = user /\ r.word = word
     THEN [r EXCEPT !.count = occ, !.meaning = IF meaning # None THEN meaning ELSE @]
     ELSE r : r \in rows}

\* UPDATE user_words SET count = count + ?, meaning = COALESCE(?, meaning)
\*   WHERE user_id = ? AND word = ?
UpdateUserWord(rows, user, word, occ, meaning) ==
    {IF r.user = user /\ r.word = word
     THEN [r EXCEPT !.count = @ + occ, !.meaning = IF meaning # None THEN meaning ELSE @]
     ELSE r : r \in rows}

\* UNIQUE (user_id, word): an insert of a stored pair is refused
ViolatesUniqueWord(rows, user, word) == \E r \in rows : r.user = user /\ r.word = word

\* INSERT INTO user_words (id, user_id, word, meaning, count, ...)
InsertUserWord(rows, id, user, word, meaning, occ) ==
    rows \cup {[id |-> id, user |-> user, word |-> word, meaning |-> meaning, count |-> occ]}

\* mutant: a plain INSERT on a table without the unique constraint
M_InsertSynonymAlways(syns, wordId, synonym) ==
    syns \cup {[id |-> Cardinality(syns) + 1, wordId |-> wordId, synonym |-> synonym]}

\* INSERT OR IGNORE INTO word_synonyms / ON CONFLICT (user_word_id, synonym) DO NOTHING
InsertSynonymOrIgnore(syns, wordId, synonym) ==
    IF \E r \in syns : r.wordId = wordId /\ r.synonym = synonym THEN syns
    ELSE syns \cup {[id |-> Cardinality(syns) + 1, wordId |-> wordId, synonym |-> synonym]}

RECURSIVE InsertSynonymBatch(_, _, _)
\* db.batch(statements) / unnest($2::text[]): one statement per synonym, in order
InsertSynonymBatch(syns, wordId, list) ==
    IF list = <<>> THEN syns
    ELSE InsertSynonymBatch(InsertSynonymOrIgnore(syns, wordId, Head(list)), wordId, Tail(list))

\* synonyms.map((s) => String(s).trim()).filter((s) => s.length > 0)
SynonymList(e) ==
    IF e.synonyms = None THEN <<>>
    ELSE SelectSeq([i \in DOMAIN e.synonyms[1] |-> Trim(e.synonyms[1][i])], IsNonEmpty)

\* JSON.stringify(entries): the fields that are defined, in the order they were set
EntryToJson(e) ==
    JObj(<<Member("word", JStr(e.word))>>
         \o (IF e.score = None THEN <<>> ELSE <<Member("score", JNum(e.score[1]))>>)
         \o (IF e.meaning = None THEN <<>> ELSE <<Member("meaning", JStr(e.meaning[1]))>>)
         \o (IF e.example = None THEN <<>> ELSE <<Member("example", JStr(e.example[1]))>>)
         \o (IF e.synonyms = None THEN <<>>
             ELSE <<Member("synonyms",
                           JArr([i \in DOMAIN e.synonyms[1] |-> JStr(e.synonyms[1][i])]))>>)
         \o (IF e.occurrences = None THEN <<>>
             ELSE <<Member("occurrences", JNum(e.occurrences[1]))>>))

EntriesJson(entries) == Stringify(JArr([i \in DOMAIN entries |-> EntryToJson(entries[i])]))

RECURSIVE NextUpsertIndex(_, _)
\* the next entry the upsert loop issues a statement for: `if (!word) continue`
NextUpsertIndex(entries, i) ==
    IF i > Len(entries) THEN i
    ELSE IF Trim(entries[i].word) = <<>> THEN NextUpsertIndex(entries, i + 1)
    ELSE i

\* idByWord.get(word): the id pushed last for the word, None when there is none
RECURSIVE IdByWord(_, _)
IdByWord(wordIds, word) ==
    IF wordIds = <<>> THEN None
    ELSE IF wordIds[Len(wordIds)].word = word THEN Some(wordIds[Len(wordIds)].id)
    ELSE IdByWord(SubSeq(wordIds, 1, Len(wordIds) - 1), word)

RECURSIVE NextSynonymIndex(_, _, _)
\* the next entry the synonym loop issues a batch for
NextSynonymIndex(entries, wordIds, i) ==
    IF i > Len(entries) THEN i
    ELSE IF \/ entries[i].synonyms = None
            \/ Len(entries[i].synonyms[1]) = 0
            \/ IdByWord(wordIds, Trim(entries[i].word)) = None
            \/ SynonymList(entries[i]) = <<>>
         THEN NextSynonymIndex(entries, wordIds, i + 1)
    ELSE i

IdleProc ==
    [st |-> "idle", user |-> "", entries |-> <<>>, title |-> None,
     i |-> 0, existing |-> None, wordIds |-> <<>>, raisedIn |-> "none"]

\* where a call stands once the upsert loop has handled entries up to i - 1
AfterUpsert(pr, wordIds, i) ==
    LET j == NextUpsertIndex(pr.entries, i) IN
    IF j <= Len(pr.entries)
    THEN [pr EXCEPT !.st = "upsert", !.i = j, !.existing = None, !.wordIds = wordIds]
    ELSE LET k == NextSynonymIndex(pr.entries, wordIds, 1)
         IN [pr EXCEPT !.st = IF k <= Len(pr.entries) THEN "synonyms" ELSE "done",
                       !.i = k, !.existing = None, !.wordIds = wordIds]

\* a save call is made; its first statement has not run yet
StartSave(p, user, entries, title) ==
    /\ procs[p].st \in {"idle", "done", "failed"}
    /\ procs' = [procs EXCEPT ![p] = [IdleProc EXCEPT !.st = "list", !.user = user,
                                                      !.entries = entries, !.title = title]]
    /\ saveLog' = Append(saveLog, [proc |-> p, user |-> user, entries |-> entries,
                                   title |-> title, words |-> userWords,
                                   synonyms |-> wordSynonyms])
    /\ UNCHANGED <<backend, userWords, wordSynonyms, vocabularyLists, nextId>>

\* mutant: the snapshot insert replaces the stored snapshots
M_InsertListReplaces(p) ==
    /\ procs[p].st = "list"
    /\ vocabularyLists' = <<[id |-> nextId, user |-> procs[p].user, title |-> procs[p].title,
                             entries |-> EntriesJson(procs[p].entries)]>>
    /\ nextId' = nextId + 1
    /\ procs' = [procs EXCEPT ![p] = AfterUpsert(procs[p], <<>>, 1)]
    /\ UNCHANGED <<backend, userWords, wordSynonyms, saveLog>>

\* INSERT INTO vocabulary_lists
InsertList(p) ==
    /\ procs[p].st = "list"
    /\ vocabularyLists' = Append(vocabularyLists,
                                 [id |-> nextId, user |-> procs[p].user,
                                  title |-> procs[p].title,
                                  entries |-> EntriesJson(procs[p].entries)])
    /\ nextId' = nextId + 1
    /\ procs' = [procs EXCEPT ![p] = AfterUpsert(procs[p], <<>>, 1)]
    /\ UNCHANGED <<backend, userWords, wordSynonyms, saveLog>>

\* d1UpsertUserWords: the SELECT of one entry
SelectWord(p) ==
    /\ backend = "d1"
    /\ procs[p].st = "upsert"
    /\ procs' = [procs EXCEPT ![p].st = "write",
                              ![p].existing =
                                  SelectUserWordId(userWords, procs[p].user,
                                                   Trim(procs[p].entries[procs[p].i].word))]
    /\ UNCHANGED <<backend, userWords, wordSynonyms, vocabularyLists, nextId, saveLog>>

\* d1UpsertUserWords: the UPDATE or the INSERT that follows the SELECT
WriteWord(p) ==
    /\ backend = "d1"
    /\ procs[p].st = "write"
    /\ LET pr == procs[p]
           e == pr.entries[pr.i]
           word == Trim(e.word)
       IN IF pr.existing # None
          THEN /\ userWords' = UpdateUserWord(userWords, pr.user, word, Occurrences(e), e.meaning)
               /\ procs' = [procs EXCEPT ![p] =
                               AfterUpsert(pr, Append(pr.wordIds,
                                                      [word |-> word, id |-> pr.existing[1]]),
                                           pr.i + 1)]
               /\ UNCHANGED nextId
          ELSE IF ViolatesUniqueWord(userWords, pr.user, word)
          THEN \* the INSERT raises; nothing catches it and the call rejects
               /\ procs' = [procs EXCEPT ![p].st = "failed", ![p].raisedIn = "upsert"]
               /\ UNCHANGED <<userWords, nextId>>
          ELSE /\ userWords' = InsertUserWord(userWords, nextId, pr.user, word, e.meaning,
                                              Occurrences(e))
               /\ nextId' = nextId + 1
               /\ procs' = [procs EXCEPT ![p] =
                               AfterUpsert(pr, Append(pr.wordIds, [word |-> word, id |-> nextId]),
                                           pr.i + 1)]
    /\ UNCHANGED <<backend, wordSynonyms, vocabularyLists, saveLog>>

\* mutant: on conflict the meaning is replaced by the new one, NULL included
M_UpsertWordReplacesMeaning(p) ==
    /\ backend = "pg"
    /\ procs[p].st = "upsert"
    /\ LET pr == procs[p]
           e == pr.entries[pr.i]
           word == Trim(e.word)
           found == SelectUserWordId(userWords, pr.user, word)
       IN IF found # None
          THEN /\ userWords' = {IF r.user = pr.user /\ r.word = word
                                THEN [r EXCEPT !.count = @ + Occurrences(e), !.meaning = e.meaning]
                                ELSE r : r \in userWords}
               /\ procs' = [procs EXCEPT ![p] =
                               AfterUpsert(pr, Append(pr.wordIds, [word |-> word, id |-> found[1]]),
                                           pr.i + 1)]
               /\ UNCHANGED nextId
          ELSE /\ userWords' = InsertUserWord(userWords, nextId, pr.user, word, e.meaning,
                                              Occurrences(e))
               /\ nextId' = nextId + 1
               /\ procs' = [procs EXCEPT ![p] =
                               AfterUpsert(pr, Append(pr.wordIds, [word |-> word, id |-> nextId]),
                                           pr.i + 1)]
    /\ UNCHANGED <<backend, wordSynonyms, vocabularyLists, saveLog>>

\* upsertUserWords: INSERT ... ON CONFLICT (user_id, word) DO UPDATE ... RETURNING id
UpsertWord(p) ==
    /\ backend = "pg"
    /\ procs[p].st = "upsert"
    /\ LET pr == procs[p]
           e == pr.entries[pr.i]
           word == Trim(e.word)
           found == SelectUserWordId(userWords, pr.user, word)
       IN IF found # None
          THEN /\ userWords' = UpdateUserWord(userWords, pr.user, word, Occurrences(e), e.meaning)
               /\ procs' = [procs EXCEPT ![p] =
                               AfterUpsert(pr, Append(pr.wordIds, [word |-> word, id |-> found[1]]),
                                           pr.i + 1)]
               /\ UNCHANGED nextId
          ELSE /\ userWords' = InsertUserWord(userWords, nextId, pr.user, word, e.meaning,
                                              Occurrences(e))
               /\ nextId' = nextId + 1
               /\ procs' = [procs EXCEPT ![p] =
                               AfterUpsert(pr, Append(pr.wordIds, [word |-> word, id |-> nextId]),
                                           pr.i + 1)]
    /\ UNCHANGED <<backend, wordSynonyms, vocabularyLists, saveLog>>

\* d1InsertWordSynonyms / insertWordSynonyms for one entry
InsertSynonyms(p) ==
    /\ procs[p].st = "synonyms"
    /\ LET pr == procs[p]
           e == pr.entries[pr.i]
           k == NextSynonymIndex(pr.entries, pr.wordIds, pr.i + 1)
       IN /\ wordSynonyms' = InsertSynonymBatch(wordSynonyms,
                                                IdByWord(pr.wordIds, Trim(e.word))[1],
                                                SynonymList(e))
          /\ procs' = [procs EXCEPT ![p].st = IF k <= Len(pr.entries) THEN "synonyms" ELSE "done",
                                    ![p].i = k]
    /\ UNCHANGED <<backend, userWords, vocabularyLists, nextId, saveLog>>

DbIdle ==
    /\ backend = "d1"
    /\ userWords = {}
    /\ wordSynonyms = {}
    /\ vocabularyLists = <<>>
    /\ nextId = 1
    /\ procs = [p \in Procs |-> IdleProc]
    /\ saveLog = <<>>

----------------------------------------------------------------------------
(* Settings: the stored row, the options resolved from it, and its update  *)

\* A JavaScript value held in a numeric column or field: the number halves/2, or a
\* text that is not a numeral.  Enumerated texts (language, level) are atoms.
Num(halves) == [t |-> "number", halves |-> halves]
NotNumeral == [t |-> "string", halves |-> 0]
NaN == [t |-> "NaN", halves |-> 0]

\* Number(v)
ToNumber(v) == IF v.t = "number" THEN v ELSE NaN

\* Number.isFinite(v)
IsFinite(v) == v.t = "number"

DEFAULT_VOCABULARY_OPTIONS ==
    [language |-> "en", level |-> "intermediate", maxWords |-> Num(60), minLength |-> Num(4)]

\* rowToOptions; dflt is the module-level default object as it is at the call
rowToOptions(row, dflt) ==
    LET max == ToNumber(row.max_words)
        min == ToNumber(row.min_length)
    IN [language |-> IF row.language = "ko" THEN "ko" ELSE "en",
        level |-> IF row.level = "beginner" THEN "beginner"
                  ELSE IF row.level = "advanced" THEN "advanced" ELSE "intermediate",
        maxWords |-> IF IsFinite(max) /\ max.halves >= 2 /\ max.halves <= 400
                     THEN max ELSE dflt.maxWords,
        minLength |-> IF IsFinite(min) /\ min.halves >= 2 /\ min.halves <= 40
                      THEN min ELSE dflt.minLength]

\* SELECT language, level, max_words, min_length ... WHERE user_id = ?  (.first())
SelectSettings(rows, user) ==
    IF \E r \in rows : r.user = user
    THEN Some([f \in {"language", "level", "max_words", "min_length"} |->
                  (CHOOSE r \in rows : r.user = user)[f]])
    ELSE None

\* mutant: the default object itself is handed out
M_SameObject(obj) == [alias |-> TRUE, value |-> obj]

\* { ...obj }: a new object with the fields of obj
SpreadCopy(obj) == [alias |-> FALSE, value |-> obj]

\* getVocabularyOptionsForUser: the object returned, and whether it is the default
\* object itself
getVocabularyOptionsForUser(rows, user, dflt) ==
    LET row == SelectSettings(rows, user)
    IN IF row # None THEN [alias |-> FALSE, value |-> rowToOptions(row[1], dflt)]
       ELSE SpreadCopy(dflt)

\* payload.f ?? d
OrElse(opt, d) == IF opt = None THEN d ELSE opt[1]

\* the four values d1UpdateUserVocabularySettings binds and returns
BoundSettings(payload) ==
    [language |-> OrElse(payload.language, "en"),
     level |-> OrElse(payload.level, "intermediate"),
     max_words |-> OrElse(payload.max_words, Num(60)),
     min_length |-> OrElse(payload.min_length, Num(4))]

\* a value an INT column of Postgres accepts
IsInt(v) == v.t = "number" /\ v.halves % 2 = 0

\* UPSERT_SETTINGS_SQL raises on a value its INT columns cannot take
UpsertSettingsRaises(payload) ==
    \/ payload.max_words # None /\ ~IsInt(payload.max_words[1])
    \/ payload.min_length # None /\ ~IsInt(payload.min_length[1])

\* UPDATE_SETTINGS_SQL (D1) and UPSERT_SETTINGS_SQL (Postgres): the row proposed for
\* insertion carries the bound values, defaults included, and ON CONFLICT (user_id)
\* DO UPDATE sets every column from it (EXCLUDED is never NULL in the Postgres text,
\* its VALUES being COALESCEd to the defaults)
UpsertSettings(rows, user, payload) ==
    LET b == BoundSettings(payload)
    IN {r \in rows : r.user # user}
       \cup {[user |-> user, language |-> b.language, level |-> b.level,
              max_words |-> b.max_words, min_length |-> b.min_length]}

\* what the update returns: the bound values (D1), the row read back (Postgres)
UpdatedSettings(store, rows, user, payload) ==
    IF store = "d1" THEN BoundSettings(payload) ELSE SelectSettings(rows, user)[1]

ReqIdle ==
    [st |-> "idle", endpoint |-> "", authorization |-> None, body |-> None,
     userId |-> None, hits |-> None, song |-> None]
RespNone == [status |-> 0, code |-> "none"]
LoginIdle ==
    [st |-> "idle", providerUserId |-> "", userId |-> None,
     result |-> [internal_id |-> None, is_new_user |-> FALSE]]

ApiIdle ==
    /\ env = [jwtSecret |-> None, geminiKey |-> None, db |-> TRUE]
    /\ req = ReqIdle
    /\ resp = RespNone
    /\ trace = <<>>
    /\ settings = {}
    /\ history = <<>>
    /\ users = {}
    /\ logins = [p \in Procs |-> LoginIdle]
    /\ defaults = DEFAULT_VOCABULARY_OPTIONS
    /\ got = None

OrchIdle ==
    /\ pc = "idle"
    /\ apiKey = None
    /\ lyrics = <<>>
    /\ options = [maxWords |-> None, minLength |-> None]
    /\ pending = <<>>
    /\ structItems = <<>>
    /\ calls = [stream |-> 0, structured |-> 0, fallback |-> 0]
    /\ outcome = [status |-> "none", error |-> "", entries |-> <<>>, stage |-> "none"]

ParseIdle ==
    /\ text = <<>>
    /\ modelItems = <<>>
    /\ maxWords = DefaultMaxWords
    /\ minLength = DefaultMinLength
    /\ parsed = Returned("none", "", <<>>)

ParseInit ==
    /\ OrchIdle
    /\ DbIdle
    /\ ApiIdle
    /\ maxWords \in 1..MaxWordsBound
    /\ minLength \in 1..MinLengthBound
    /\ \/ \E list \in SeqsUpTo(ModelElements, MaxItems), w \in Wrappers :
             /\ modelItems = list
             /\ text = Wrap(w, Stringify(JArr(list)))
       \/ /\ modelItems = <<>>
          /\ text \in OddTexts
    /\ parsed = Returned("none", "", <<>>)

\* one call parseVocabularyResponse(text, maxWords, minLength)
ParseResponse ==
    /\ parsed.status = "none"
    /\ parsed' = parseVocabularyResponse(text, maxWords, minLength)
    /\ UNCHANGED <<text, modelItems, maxWords, minLength>>
    /\ UNCHANGED <<orchVars, dbVars, apiVars>>

NextParse == ParseResponse

SpecParse == ParseInit /\ [][NextParse]_vars

----------------------------------------------------------------------------
(* getFallbackVocabulary                                                   *)

\* \w of a JavaScript regular expression
WordChars ==
    {"a", "b", "c", "e", "n", "A", "B", "C", "_"} \cup DigitUnits

\* text.replace(/[^\w\s]/g, ' ')
ReplaceNonWord(s) ==
    [i \in DOMAIN s |-> IF s[i] \in WordChars \cup WhiteSpace THEN s[i] ELSE " "]

RECURSIVE SplitFrom(_, _, _)
\* cur is the token being read; afterWs holds while a whitespace run is being skipped
SplitFrom(s, cur, afterWs) ==
    IF s = <<>> THEN <<cur>>
    ELSE IF Head(s) \in WhiteSpace
         THEN IF afterWs THEN SplitFrom(Tail(s), cur, TRUE)
              ELSE <<cur>> \o SplitFrom(Tail(s), <<>>, TRUE)
         ELSE SplitFrom(Tail(s), Append(cur, Head(s)), FALSE)

\* s.split(/\s+/)
SplitWhitespace(s) == SplitFrom(s, <<>>, FALSE)

\* the words of isStopWord's list that the model's alphabet can spell
StopWords == {<<"a">>, <<"a", "n">>, <<"b", "e">>, <<"c", "a", "n">>}

isStopWord(word) == ToLowerCase(word) \in StopWords

RECURSIVE UniqueFrom(_, _)
UniqueFrom(ws, seen) ==
    IF ws = <<>> THEN <<>>
    ELSE IF Head(ws) \in seen THEN UniqueFrom(Tail(ws), seen)
         ELSE <<Head(ws)>> \o UniqueFrom(Tail(ws), seen \cup {Head(ws)})

\* mutant: the words are not deduplicated
M_UniqueKeepsAll(ws) == ws

\* [...new Set(words)]
Unique(ws) == UniqueFrom(ws, {})

\* the fixed placeholder texts (Korean in the source), each as one unit
FallbackMeaning == <<"placeholder-meaning">>
FallbackExample == <<"placeholder-example">>
FallbackScore == 5

getFallbackVocabulary(lyr, maxW, minLen) ==
    LET LongEnough(w) == Len(w) >= minLen
        NotStop(w) == ~isStopWord(w)
        words == SelectSeq(
                     SelectSeq(SplitWhitespace(ReplaceNonWord(ToLowerCase(lyr))), LongEnough),
                     NotStop)
        uniqueWords == Slice0(Unique(words), maxW)
    IN [i \in DOMAIN uniqueWords |->
           [word |-> uniqueWords[i],
            score |-> Some(FallbackScore),
            meaning |-> Some(FallbackMeaning),
            example |-> Some(FallbackExample),
            synonyms |-> Some(<<>>),
            occurrences |-> Some(1)]]

----------------------------------------------------------------------------
(* createVocabularyFromLyrics                                              *)

\* const { maxWords = 30, minLength = 2 } = options
OrDefault(opt, default) == IF opt = None THEN default ELSE opt[1]

MissingKeyError == "GEMINI_API_KEY is required in env"

\* mutant: only an absent key is refused, an empty one passes
M_KeyIsUndefined(key) == key = None

\* !env.GEMINI_API_KEY
KeyIsFalsy(key) == key = None \/ key = Some(<<>>)

\* Approach 2: the filter, map and slice over result.items
NormalizeStructured(list, maxW, minLen) ==
    LET Kept(e) == Len(e.word) > 0 /\ Len(e.word) >= minLen
        kept == SelectSeq(list, Kept)
    IN Slice0([i \in DOMAIN kept |->
                  [kept[i] EXCEPT !.word = Trim(kept[i].word), !.occurrences = Some(1)]],
              maxW)

Outcome(status, error, entries, stage) ==
    [status |-> status, error |-> error, entries |-> entries, stage |-> stage]

\* the precondition check, then the streaming call is started
Enter ==
    /\ pc = "call"
    /\ IF KeyIsFalsy(apiKey)
       THEN /\ pc' = "done"
            /\ outcome' = Outcome("threw", MissingKeyError, <<>>, "none")
            /\ UNCHANGED calls
       ELSE /\ pc' = "streaming"
            /\ calls' = [calls EXCEPT !.stream = @ + 1]
            /\ UNCHANGED outcome
    /\ UNCHANGED <<apiKey, lyrics, options, pending, structItems, parseVars, dbVars, apiVars>>

\* for await (const chunk of ...) fullText += chunk
StreamChunk ==
    /\ pc = "streaming"
    /\ pending # <<>>
    /\ text' = text \o Head(pending)
    /\ pending' = Tail(pending)
    /\ UNCHANGED <<pc, apiKey, lyrics, options, structItems, calls, outcome>>
    /\ UNCHANGED <<modelItems, maxWords, minLength, parsed, dbVars, apiVars>>

\* mutant: a failure of the streaming call goes straight to the fallback extractor
M_StreamThrowsSkipsStructured ==
    /\ pc = "streaming"
    /\ pc' = "done"
    /\ calls' = [calls EXCEPT !.fallback = @ + 1]
    /\ outcome' = [status |-> "returned", error |-> "",
                   entries |-> getFallbackVocabulary(lyrics, maxWords, minLength),
                   stage |-> "fallback"]
    /\ UNCHANGED <<apiKey, lyrics, options, pending, structItems, parseVars, dbVars, apiVars>>

\* the streaming call raises; the structured call is started
StreamThrows ==
    /\ pc = "streaming"
    /\ pc' = "structured"
    /\ calls' = [calls EXCEPT !.structured = @ + 1]
    /\ UNCHANGED <<apiKey, lyrics, options, pending, structItems, outcome, parseVars, dbVars, apiVars>>

\* mutant: a parser failure is rethrown to the caller instead of caught
M_StreamEndsRethrows ==
    /\ pc = "streaming"
    /\ pending = <<>>
    /\ LET r == parseVocabularyResponse(text, maxWords, minLength) IN
       /\ parsed' = r
       /\ pc' = "done"
       /\ outcome' = IF r.status = "ok" THEN Outcome("returned", "", r.entries, "stream")
                     ELSE Outcome("threw", r.error, <<>>, "stream")
    /\ UNCHANGED <<apiKey, lyrics, options, pending, structItems, calls>>
    /\ UNCHANGED <<text, modelItems, maxWords, minLength, dbVars, apiVars>>

\* the stream is drained: the parser runs on fullText
StreamEnds ==
    /\ pc = "streaming"
    /\ pending = <<>>
    /\ LET r == parseVocabularyResponse(text, maxWords, minLength) IN
       /\ parsed' = r
       /\ IF r.status = "ok"
          THEN /\ pc' = "done"
               /\ outcome' = Outcome("returned", "", r.entries, "stream")
               /\ UNCHANGED calls
          ELSE /\ pc' = "structured"
               /\ calls' = [calls EXCEPT !.structured = @ + 1]
               /\ UNCHANGED outcome
    /\ UNCHANGED <<apiKey, lyrics, options, pending, structItems>>
    /\ UNCHANGED <<text, modelItems, maxWords, minLength, dbVars, apiVars>>

\* entries generateStructured may resolve to under the item schema
StructuredElements ==
    LET E(w, sc) == [word |-> w, score |-> sc, meaning |-> None, example |-> None,
                     synonyms |-> None, occurrences |-> None]
    IN { E(<<"a", "b">>, Some(8)), E(<<"A", "b">>, Some(5)), E(<<" ", "a", " ">>, None),
         E(<<" ", " ">>, None), E(<<>>, None), E(<<"b", "c">>, Some(7)) }

StructuredLists ==
    { <<>> } \cup { <<e>> : e \in StructuredElements }
    \cup { <<e, f>> : e \in StructuredElements, f \in StructuredElements }

\* the structured call resolves
StructuredResolves ==
    /\ pc = "structured"
    /\ \E list \in StructuredLists :
          /\ structItems' = list
          /\ outcome' = Outcome("returned", "",
                                NormalizeStructured(list, maxWords, minLength), "structured")
    /\ pc' = "done"
    /\ UNCHANGED <<apiKey, lyrics, options, pending, calls, parseVars, dbVars, apiVars>>

\* mutant: a failure of the structured call is raised to the caller
M_StructuredThrowsRethrows ==
    /\ pc = "structured"
    /\ outcome' = Outcome("threw", "structured call failed", <<>>, "structured")
    /\ pc' = "done"
    /\ UNCHANGED <<apiKey, lyrics, options, pending, structItems, calls, parseVars, dbVars,
                   apiVars>>

\* the structured call raises; the fallback extractor runs
StructuredThrows ==
    /\ pc = "structured"
    /\ calls' = [calls EXCEPT !.fallback = @ + 1]
    /\ outcome' = Outcome("returned", "",
                          getFallbackVocabulary(lyrics, maxWords, minLength), "fallback")
    /\ pc' = "done"
    /\ UNCHANGED <<apiKey, lyrics, options, pending, structItems, parseVars, dbVars, apiVars>>

\* lyrics handed to the call
LyricsTexts ==
    { <<"a", "b", " ", "A", "b", ".", "b", "c">>,
      <<" ", "a", " ", "c", "a", "n", " ", "b", "e", "!">>,
      <<"b", "'", "c", " ", " ", "a", "b", "c">> }

\* arrays the streaming model emits in this specification
StreamLists ==
    LET ab == JObj(<<Member("word", JStr(<<"a", "b">>)), Member("score", JNum(8))>>)
        Ab == JObj(<<Member("word", JStr(<<"A", "b">>)), Member("score", JNum(5))>>)
        bc == JObj(<<Member("word", JStr(<<"b", "c">>)), Member("score", JNum(7))>>)
    IN { <<>>, <<ab>>, <<ab, Ab, bc>> }

\* the text cut into the chunks the stream yields: at once, or in two halves
Chunkings(t) ==
    { <<t>> } \cup
    { <<SubSeq(t, 1, Len(t) \div 2), SubSeq(t, Len(t) \div 2 + 1, Len(t))>> }

Init ==
    /\ DbIdle
    /\ ApiIdle
    /\ pc = "call"
    /\ apiKey \in {None, Some(<<>>), Some(<<"k">>)}
    /\ lyrics \in LyricsTexts
    /\ options \in [maxWords : {None} \cup {Some(n) : n \in 1..MaxWordsBound},
                    minLength : {None} \cup {Some(n) : n \in 1..MinLengthBound}]
    /\ maxWords = OrDefault(options.maxWords, DefaultMaxWords)
    /\ minLength = OrDefault(options.minLength, DefaultMinLength)
    /\ \/ \E list \in StreamLists, w \in Wrappers :
             /\ modelItems = list
             /\ pending \in Chunkings(Wrap(w, Stringify(JArr(list))))
       \/ /\ modelItems = <<>>
          /\ \E t \in OddTexts : pending \in Chunkings(t)
    /\ text = <<>>
    /\ parsed = Returned("none", "", <<>>)
    /\ structItems = <<>>
    /\ calls = [stream |-> 0, structured |-> 0, fallback |-> 0]
    /\ outcome = Outcome("none", "", <<>>, "none")

Next ==
    \/ Enter
    \/ StreamChunk
    \/ StreamThrows
    \/ StreamEnds
    \/ StructuredResolves
    \/ StructuredThrows

Spec == Init /\ [][Next]_vars

----------------------------------------------------------------------------
(* Save calls: one after the other, and two at once                        *)

MaxSaves == 2          \* save calls made in a sequential run

SaveUsers == {"u1", "u2"}

SaveEntry(word, meaning, synonyms, occurrences) ==
    [word |-> word, score |-> None, meaning |-> meaning, example |-> None,
     synonyms |-> synonyms, occurrences |-> occurrences]

\* "ab" counted twice, with a meaning and two synonyms
EntryAbTwice ==
    SaveEntry(<<"a", "b">>, Some(<<"m", "1">>), Some(<<<<"s">>, <<"t">>>>), Some(2))
\* "ab" without meaning or occurrences; its synonyms repeat once trimmed
EntryAbBare == SaveEntry(<<"a", "b">>, None, Some(<<<<" ", "s">>, <<"s">>, <<" ">>>>), None)
\* the same word in another casing
EntryAbUpper == SaveEntry(<<"A", "b">>, Some(<<"m", "2">>), None, Some(1))
\* "ab" padded, with another meaning and an empty synonym list
EntryAbPadded == SaveEntry(<<" ", "a", "b", " ">>, Some(<<"m", "2">>), Some(<<>>), Some(1))
\* a word that is empty once trimmed
EntryBlank == SaveEntry(<<" ", " ">>, Some(<<"m", "1">>), Some(<<<<"s">>>>), Some(1))

SavePayloads ==
    { [entries |-> <<>>, title |-> None],
      [entries |-> <<EntryAbTwice>>, title |-> Some(<<"t">>)],
      [entries |-> <<EntryAbBare>>, title |-> None],
      [entries |-> <<EntryAbBare, EntryAbUpper>>, title |-> Some(<<"t">>)],
      [entries |-> <<EntryAbTwice, EntryAbPadded>>, title |-> None],
      [entries |-> <<EntryBlank, EntryAbUpper>>, title |-> Some(<<"t">>)],
      [entries |-> <<EntryAbPadded, EntryAbBare>>, title |-> None] }

NoneRunning == \A p \in Procs : procs[p].st \in {"idle", "done", "failed"}

\* the next save call of a sequential run
SaveCall ==
    /\ NoneRunning
    /\ Len(saveLog) < MaxSaves
    /\ \E user \in SaveUsers, payload \in SavePayloads :
          StartSave("p1", user, payload.entries, payload.title)
    /\ UNCHANGED <<parseVars, orchVars, apiVars>>

\* one statement of a running save call
SaveStep ==
    /\ \E p \in Procs :
          \/ InsertList(p)
          \/ SelectWord(p)
          \/ WriteWord(p)
          \/ UpsertWord(p)
          \/ InsertSynonyms(p)
    /\ UNCHANGED <<parseVars, orchVars, apiVars>>

InitSave ==
    /\ ParseIdle
    /\ OrchIdle
    /\ ApiIdle
    /\ backend \in {"d1", "pg"}
    /\ userWords = {}
    /\ wordSynonyms = {}
    /\ vocabularyLists = <<>>
    /\ nextId = 1
    /\ procs = [p \in Procs |-> IdleProc]
    /\ saveLog = <<>>

NextSave == SaveCall \/ SaveStep

\* save calls made one after the other
SpecSave == InitSave /\ [][NextSave]_vars

\* payloads of the two calls that run at once
ConcurrentPayloads ==
    {pl \in SavePayloads :
        pl.entries \in { <<EntryAbTwice>>, <<EntryAbBare>>, <<EntryAbBare, EntryAbUpper>>,
                         <<EntryAbPadded, EntryAbBare>> }}

\* the tables after u1 saved <<EntryAbTwice>>: the word is stored with count 2
StoredWords ==
    {[id |-> 2, user |-> "u1", word |-> <<"a", "b">>, meaning |-> Some(<<"m", "1">>), count |-> 2]}
StoredSynonyms ==
    {[id |-> 1, wordId |-> 2, synonym |-> <<"s">>], [id |-> 2, wordId |-> 2, synonym |-> <<"t">>]}
StoredLists ==
    <<[id |-> 1, user |-> "u1", title |-> Some(<<"t">>), entries |-> EntriesJson(<<EntryAbTwice>>)]>>

\* two save calls of user u1 have been made and none of their statements has run
InitConcurrent ==
    /\ ParseIdle
    /\ OrchIdle
    /\ ApiIdle
    /\ backend \in {"d1", "pg"}
    /\ \/ /\ userWords = {} /\ wordSynonyms = {} /\ vocabularyLists = <<>> /\ nextId = 1
       \/ /\ userWords = StoredWords /\ wordSynonyms = StoredSynonyms
          /\ vocabularyLists = StoredLists /\ nextId = 3
    /\ \E a \in ConcurrentPayloads, b \in ConcurrentPayloads :
          /\ procs = [p \in Procs |->
                         [IdleProc EXCEPT !.st = "list", !.user = "u1",
                                          !.entries = IF p = "p1" THEN a.entries ELSE b.entries,
                                          !.title = IF p = "p1" THEN a.title ELSE b.title]]
          /\ saveLog = <<[proc |-> "p1", user |-> "u1", entries |-> a.entries, title |-> a.title,
                          words |-> userWords, synonyms |-> wordSynonyms],
                         [proc |-> "p2", user |-> "u1", entries |-> b.entries, title |-> b.title,
                          words |-> userWords, synonyms |-> wordSynonyms]>>

NextConcurrent == SaveStep

\* two save calls of one user whose statements interleave
SpecConcurrent == InitConcurrent /\ [][NextConcurrent]_vars

----------------------------------------------------------------------------
(* Save calls against a store whose statements can fail                    *)

\* a statement of the upsert loop raises: d1UpsertUserWords / upsertUserWords has no
\* try/catch and neither has its caller, the save call rejects
UpsertRaises(p) ==
    /\ procs[p].st \in {"upsert", "write"}
    /\ procs' = [procs EXCEPT ![p].st = "failed", ![p].raisedIn = "upsert"]
    /\ UNCHANGED <<backend, userWords, wordSynonyms, vocabularyLists, nextId, saveLog>>

\* the synonym insert of one entry raises: the loop of d1SaveVocabularyList /
\* saveVocabularyList awaits it outside any try/catch, the save call rejects
SynonymsRaise(p) ==
    /\ procs[p].st = "synonyms"
    /\ procs' = [procs EXCEPT ![p].st = "failed", ![p].raisedIn = "synonyms"]
    /\ UNCHANGED <<backend, userWords, wordSynonyms, vocabularyLists, nextId, saveLog>>

\* a statement of a running save call fails
SaveFault ==
    /\ \E p \in Procs :
          \/ UpsertRaises(p)
          \/ SynonymsRaise(p)
    /\ UNCHANGED <<parseVars, orchVars, apiVars>>

NextFaulty == SaveCall \/ SaveStep \/ SaveFault

\* save calls made one after the other, any statement after the snapshot insert may fail
SpecFaulty == InitSave /\ [][NextFaulty]_vars

----------------------------------------------------------------------------
(* Login callbacks: d1SyncUserFromOAuth and syncUserFromOAuth              *)

\* ids generateUUID / gen_random_uuid can hand out
UserIdPool == {"u1", "u2", "u3"}

\* SELECT id FROM users WHERE provider = ? AND provider_user_id = ? LIMIT 1
SelectUserByProvider(rows, provider, providerUserId) ==
    IF \E r \in rows : r.provider = provider /\ r.providerUserId = providerUserId
    THEN Some((CHOOSE r \in rows : r.provider = provider /\ r.providerUserId = providerUserId).id)
    ELSE None

\* UNIQUE (provider, provider_user_id): an insert of a stored pair is refused
ViolatesUniqueProvider(rows, provider, providerUserId) ==
    \E r \in rows : r.provider = provider /\ r.providerUserId = providerUserId

NewUserId(rows) == CHOOSE id \in UserIdPool : \A r \in rows : r.id # id

\* VALUES (?, 'en', 'intermediate', 30, 2)
DefaultSettingsRow(user) ==
    [user |-> user, language |-> "en", level |-> "intermediate",
     max_words |-> Num(60), min_length |-> Num(4)]

\* INSERT_DEFAULT_SETTINGS_SQL ... ON CONFLICT (user_id) DO NOTHING
InsertDefaultSettings(rows, user) ==
    IF \E r \in rows : r.user = user THEN rows ELSE rows \cup {DefaultSettingsRow(user)}

\* the SELECT of a callback and, for a stored user, its return
LoginSelect(p) ==
    /\ logins[p].st = "select"
    /\ LET existing == SelectUserByProvider(users, "google", logins[p].providerUserId)
       IN logins' = [logins EXCEPT ![p] =
                        IF existing # None
                        THEN [@ EXCEPT !.st = "done",
                                       !.result = [internal_id |-> existing, is_new_user |-> FALSE]]
                        ELSE [@ EXCEPT !.st = "insert"]]
    /\ UNCHANGED <<users, settings>>

\* D1: db.batch([INSERT_USER_SQL, INSERT_SETTINGS_SQL]), one transaction
LoginInsertBatch(p) ==
    /\ backend = "d1"
    /\ logins[p].st = "insert"
    /\ IF ViolatesUniqueProvider(users, "google", logins[p].providerUserId)
       THEN \* the batch raises and is rolled back; the callback answers AUTH_FAILED
            /\ logins' = [logins EXCEPT ![p].st = "failed"]
            /\ UNCHANGED <<users, settings>>
       ELSE LET id == NewUserId(users)
            IN /\ users' = users \cup {[id |-> id, provider |-> "google",
                                        providerUserId |-> logins[p].providerUserId]}
               /\ settings' = settings \cup {DefaultSettingsRow(id)}
               /\ logins' = [logins EXCEPT ![p].st = "done",
                                           ![p].result = [internal_id |-> Some(id),
                                                          is_new_user |-> TRUE]]

\* Postgres: INSERT_USER_SQL ... RETURNING id
LoginInsertUser(p) ==
    /\ backend = "pg"
    /\ logins[p].st = "insert"
    /\ IF ViolatesUniqueProvider(users, "google", logins[p].providerUserId)
       THEN /\ logins' = [logins EXCEPT ![p].st = "failed"]
            /\ UNCHANGED users
       ELSE LET id == NewUserId(users)
            IN /\ users' = users \cup {[id |-> id, provider |-> "google",
                                        providerUserId |-> logins[p].providerUserId]}
               /\ logins' = [logins EXCEPT ![p].st = "settings", ![p].userId = Some(id)]
    /\ UNCHANGED settings

\* Postgres: INSERT_DEFAULT_SETTINGS_SQL, then the return
LoginInsertSettings(p) ==
    /\ backend = "pg"
    /\ logins[p].st = "settings"
    /\ settings' = InsertDefaultSettings(settings, logins[p].userId[1])
    /\ logins' = [logins EXCEPT ![p].st = "done",
                                ![p].result = [internal_id |-> logins[p].userId,
                                               is_new_user |-> TRUE]]
    /\ UNCHANGED users

\* one statement of a running callback
LoginStep ==
    /\ \E p \in Procs :
          \/ LoginSelect(p)
          \/ LoginInsertBatch(p)
          \/ LoginInsertUser(p)
          \/ LoginInsertSettings(p)
    /\ UNCHANGED <<env, req, resp, trace, history, defaults, got>>
    /\ UNCHANGED <<parseVars, orchVars, dbVars>>

\* two callbacks have exchanged their codes and none of their statements has run; the
\* tables as they were are kept in trace
InitLogin ==
    /\ ParseIdle
    /\ OrchIdle
    /\ backend \in {"d1", "pg"}
    /\ userWords = {} /\ wordSynonyms = {} /\ vocabularyLists = <<>> /\ nextId = 1
    /\ procs = [p \in Procs |-> IdleProc]
    /\ saveLog = <<>>
    /\ env = [jwtSecret |-> Some(<<"k">>), geminiKey |-> None, db |-> TRUE]
    /\ req = ReqIdle
    /\ resp = RespNone
    /\ \/ users = {} /\ settings = {}
       \/ /\ users = {[id |-> "u1", provider |-> "google", providerUserId |-> "g1"]}
          /\ settings \in {{DefaultSettingsRow("u1")},
                           {[DefaultSettingsRow("u1") EXCEPT !.language = "ko"]}}
       \/ /\ users = {[id |-> "u1", provider |-> "google", providerUserId |-> "g2"]}
          /\ settings = {DefaultSettingsRow("u1")}
    /\ trace = <<[op |-> "tables", users |-> users, settings |-> settings]>>
    /\ history = <<>>
    /\ \E a \in {"g1", "g2"}, b \in {"g1", "g2"} :
          logins = [p \in Procs |->
                       [LoginIdle EXCEPT !.st = "select",
                                         !.providerUserId = IF p = "p1" THEN a ELSE b]]
    /\ defaults = DEFAULT_VOCABULARY_OPTIONS
    /\ got = None

NextLogin == LoginStep

SpecLogin == InitLogin /\ [][NextLogin]_vars

----------------------------------------------------------------------------
(* The protected routes of routes/v1.ts                                    *)

ReadEndpoints ==
    {"GET /user/profile", "GET /user/words", "GET /music/history", "GET /vocabulary/lists"}

Endpoints ==
    ReadEndpoints \cup {"PATCH /user/settings", "POST /music/history", "POST /vocabulary/generate"}

\* requests whose method and path match no route
UnmatchedEndpoints == {"GET /unknown/path", "POST /user/profile"}

JsonError(status, code) == [status |-> status, code |-> code]

JsonSuccess(status, data) == [status |-> status, code |-> "ok", data |-> data]

\* an external call or a database statement made for the request
Made(kind, op, user) == [kind |-> kind, op |-> op, user |-> user]

\* a token as jose.jwtVerify sees it: whether signature, issuer, audience and expiry
\* pass, and its sub claim
Token(verified, sub) == [verified |-> verified, sub |-> sub]

\* verifyJwt: the sub of a token that verifies, when it is a non-empty string
verifyJwt(token) ==
    IF ~token.verified THEN None
    ELSE IF token.sub = None \/ token.sub = Some("") THEN None
    ELSE token.sub

\* mutant: the scheme of the Authorization header is not looked at
M_AnyScheme(auth) ==
    IF auth = None THEN None
    ELSE IF auth[1].token = None THEN None
    ELSE verifyJwt(auth[1].token[1])

\* getUserIdFromRequest; auth is the Authorization header: its first seven characters
\* and the rest once trimmed (None when nothing is left)
getUserIdFromRequest(auth) ==
    IF auth = None \/ auth[1].prefix # "Bearer " THEN None
    ELSE IF auth[1].token = None THEN None
    ELSE verifyJwt(auth[1].token[1])

\* authEndpoint, the middleware of every protected route
AuthEndpoint ==
    /\ req.st = "arrived"
    /\ IF env.jwtSecret = None \/ env.jwtSecret = Some(<<>>)
       THEN /\ resp' = JsonError(503, "SERVICE_UNAVAILABLE")
            /\ req' = [req EXCEPT !.st = "done"]
       ELSE LET userId == getUserIdFromRequest(req.authorization)
            IN IF userId = None
               THEN /\ resp' = JsonError(401, "UNAUTHORIZED")
                    /\ req' = [req EXCEPT !.st = "done"]
               ELSE /\ req' = [req EXCEPT !.st = "handler", !.userId = userId]
                    /\ UNCHANGED resp
    /\ UNCHANGED <<env, trace, settings, history, users, logins, defaults, got>>
    /\ UNCHANGED <<parseVars, orchVars, dbVars>>

\* GET /user/profile, /user/words, /music/history, /vocabulary/lists
HandleRead ==
    /\ req.st = "handler"
    /\ req.endpoint \in ReadEndpoints
    /\ req' = [req EXCEPT !.st = "done"]
    /\ IF ~env.db
       THEN /\ resp' = JsonError(503, "SERVICE_UNAVAILABLE")
            /\ UNCHANGED trace
       ELSE /\ trace' = Append(trace, Made("db", req.endpoint, req.userId[1]))
            /\ resp' = IF /\ req.endpoint = "GET /user/profile"
                          /\ \A r \in users : r.id # req.userId[1]
                       THEN JsonError(404, "NOT_FOUND")
                       ELSE JsonSuccess(200, req.userId[1])
    /\ UNCHANGED <<env, settings, history, users, logins, defaults, got>>
    /\ UNCHANGED <<parseVars, orchVars, dbVars>>

\* app.all("*"), registered after the protected routes and their middleware, which
\* app.route("/", protectedApp) registers for every path
HandleUnmatched ==
    /\ req.st = "handler"
    /\ req.endpoint \in UnmatchedEndpoints
    /\ req' = [req EXCEPT !.st = "done"]
    /\ resp' = JsonError(404, "NOT_FOUND")
    /\ UNCHANGED <<env, trace, settings, history, users, logins, defaults, got>>
    /\ UNCHANGED <<parseVars, orchVars, dbVars>>

\* PATCH /user/settings
HandlePatchSettings ==
    /\ req.st = "handler"
    /\ req.endpoint = "PATCH /user/settings"
    /\ req' = [req EXCEPT !.st = "done"]
    /\ IF ~env.db
       THEN /\ resp' = JsonError(503, "SERVICE_UNAVAILABLE")
            /\ UNCHANGED <<trace, settings>>
       ELSE IF req.body = None
       THEN /\ resp' = JsonError(400, "BAD_REQUEST")
            /\ UNCHANGED <<trace, settings>>
       ELSE /\ trace' = Append(trace, Made("db", "UPDATE_SETTINGS_SQL", req.userId[1]))
            /\ settings' = UpsertSettings(settings, req.userId[1], req.body[1])
            /\ resp' = JsonSuccess(200, BoundSettings(req.body[1]))
    /\ UNCHANGED <<env, history, users, logins, defaults, got>>
    /\ UNCHANGED <<parseVars, orchVars, dbVars>>

\* POST /music/history
HandlePostHistory ==
    /\ req.st = "handler"
    /\ req.endpoint = "POST /music/history"
    /\ req' = [req EXCEPT !.st = "done"]
    /\ IF ~env.db
       THEN /\ resp' = JsonError(503, "SERVICE_UNAVAILABLE")
            /\ UNCHANGED <<trace, history>>
       ELSE IF \/ req.body = None
               \/ req.body[1].video_id = None
               \/ Trim(req.body[1].video_id[1]) = <<>>
               \/ req.body[1].title = None
       THEN /\ resp' = JsonError(400, "BAD_REQUEST")
            /\ UNCHANGED <<trace, history>>
       ELSE /\ trace' = Append(trace, Made("db", "INSERT_MUSIC_HISTORY_SQL", req.userId[1]))
            /\ \E stored \in BOOLEAN :
                  IF stored
                  THEN /\ history' = Append(history,
                                            [user |-> req.userId[1],
                                             video_id |-> Trim(req.body[1].video_id[1]),
                                             title |-> req.body[1].title[1],
                                             origin |-> "YouTube"])
                       /\ resp' = JsonSuccess(201, Len(history) + 1)
                  ELSE /\ resp' = JsonError(500, "INSERT_FAILED")
                       /\ UNCHANGED history
    /\ UNCHANGED <<env, settings, users, logins, defaults, got>>
    /\ UNCHANGED <<parseVars, orchVars, dbVars>>

\* POST /vocabulary/generate up to the call of searchSongs
GenerateStart ==
    /\ req.st = "handler"
    /\ req.endpoint = "POST /vocabulary/generate"
    /\ IF ~env.db
       THEN /\ resp' = JsonError(503, "SERVICE_UNAVAILABLE")
            /\ req' = [req EXCEPT !.st = "done"]
            /\ UNCHANGED trace
       ELSE IF \/ req.body = None
               \/ req.body[1].song_title = None
               \/ Trim(req.body[1].song_title[1]) = <<>>
       THEN /\ resp' = JsonError(400, "BAD_REQUEST")
            /\ req' = [req EXCEPT !.st = "done"]
            /\ UNCHANGED trace
       ELSE /\ trace' = Append(trace, Made("external", "searchSongs", req.userId[1]))
            /\ req' = [req EXCEPT !.st = "search"]
            /\ UNCHANGED resp
    /\ UNCHANGED <<env, settings, history, users, logins, defaults, got>>
    /\ UNCHANGED <<parseVars, orchVars, dbVars>>

\* mutant: an empty hit list is not looked at
M_NoHitsIgnored(hits) == FALSE

\* hits.length === 0
NoHits(hits) == Len(hits) = 0

\* searchSongs resolves; with a hit, getLyricsById is called for the first one
SearchResolves ==
    /\ req.st = "search"
    /\ \E hits \in {<<>>, <<7>>, <<7, 8>>} :
          IF NoHits(hits)
          THEN /\ resp' = JsonError(404, "NOT_FOUND")
               /\ req' = [req EXCEPT !.st = "done", !.hits = Some(hits)]
               /\ UNCHANGED trace
          ELSE /\ trace' = Append(trace, Made("external", "getLyricsById", req.userId[1]))
               /\ req' = [req EXCEPT !.st = "lyrics", !.hits = Some(hits)]
               /\ UNCHANGED resp
    /\ UNCHANGED <<env, settings, history, users, logins, defaults, got>>
    /\ UNCHANGED <<parseVars, orchVars, dbVars>>

\* searchSongs or getLyricsById raises
LyricsFetchFails ==
    /\ req.st \in {"search", "lyrics"}
    /\ resp' = JsonError(502, "LYRICS_FETCH_FAILED")
    /\ req' = [req EXCEPT !.st = "done"]
    /\ UNCHANGED <<env, trace, settings, history, users, logins, defaults, got>>
    /\ UNCHANGED <<parseVars, orchVars, dbVars>>

\* the song getLyricsById resolves to
Songs ==
    { [title |-> <<"T">>, artist |-> <<"A">>,
       lyrics |-> <<"a", "b", " ", "A", "b", ".", "b", "c">>] }

\* getLyricsById resolves; createVocabularyFromLyricsForUser is entered and looks the
\* settings up
LyricsResolves ==
    /\ req.st = "lyrics"
    /\ \E song \in Songs : req' = [req EXCEPT !.st = "settings", !.song = Some(song)]
    /\ trace' = Append(trace, Made("db", "SELECT user_vocabulary_settings", req.userId[1]))
    /\ UNCHANGED <<env, resp, settings, history, users, logins, defaults, got>>
    /\ UNCHANGED <<parseVars, orchVars, dbVars>>

\* what the streaming model will yield for the request
RouteStreams ==
    LET ab == JObj(<<Member("word", JStr(<<"a", "b">>)), Member("score", JNum(8)),
                     Member("synonyms", JArr(<<JStr(<<"s">>), JStr(<<"t">>)>>))>>)
        Ab == JObj(<<Member("word", JStr(<<"A", "b">>)), Member("meaning", JStr(<<"m">>))>>)
        bc == JObj(<<Member("word", JStr(<<"b", "c">>)), Member("score", JNum(7)),
                     Member("synonyms", JArr(<<JStr(<<"s">>)>>))>>)
    IN { <<Stringify(JArr(<<ab, Ab, bc>>))>>, <<<<"junk">>>> }

\* the whole number a stored numeric option stands for
Whole(v) == v.halves \div 2

\* the settings lookup resolves: the options are resolved and createVocabularyFromLyrics
\* is called with them
SettingsResolves ==
    /\ req.st = "settings"
    /\ LET r == getVocabularyOptionsForUser(settings, req.userId[1], defaults)
       IN /\ got' = Some([row |-> SelectSettings(settings, req.userId[1]), alias |-> r.alias,
                          value |-> r.value, changed |-> FALSE])
          /\ options' = [maxWords |-> Some(Whole(r.value.maxWords)),
                         minLength |-> Some(Whole(r.value.minLength))]
          /\ maxWords' = Whole(r.value.maxWords)
          /\ minLength' = Whole(r.value.minLength)
    /\ req' = [req EXCEPT !.st = "generate"]
    /\ pc' = "call"
    /\ apiKey' = env.geminiKey
    /\ lyrics' = req.song[1].lyrics
    /\ pending' \in RouteStreams
    /\ UNCHANGED <<text, modelItems, parsed, structItems, calls, outcome>>
    /\ UNCHANGED <<env, resp, trace, settings, history, users, logins, defaults>>
    /\ UNCHANGED dbVars

\* the settings lookup raises
SettingsRejects ==
    /\ req.st = "settings"
    /\ resp' = JsonError(500, "GENERATE_FAILED")
    /\ req' = [req EXCEPT !.st = "done"]
    /\ UNCHANGED <<env, trace, settings, history, users, logins, defaults, got>>
    /\ UNCHANGED <<parseVars, orchVars, dbVars>>

\* createVocabularyFromLyrics raised
GenerateThrew ==
    /\ req.st = "generate"
    /\ pc = "done"
    /\ outcome.status = "threw"
    /\ resp' = JsonError(500, "GENERATE_FAILED")
    /\ req' = [req EXCEPT !.st = "done"]
    /\ UNCHANGED <<env, trace, settings, history, users, logins, defaults, got>>
    /\ UNCHANGED <<parseVars, orchVars, dbVars>>

\* const save = true: the body's save field is not read
SaveEnabled(body) == TRUE

\* body.title?.trim() || `${songTitle} - ${songArtist}`
ListTitle(body, song) ==
    IF body.title # None /\ Trim(body.title[1]) # <<>> THEN Trim(body.title[1])
    ELSE song.title \o <<" ", "-", " ">> \o song.artist

\* createVocabularyFromLyrics returned: env.saveVocabularyList, when defined, is called
GenerateReturned ==
    /\ req.st = "generate"
    /\ pc = "done"
    /\ outcome.status = "returned"
    /\ IF SaveEnabled(req.body[1])
       THEN /\ StartSave("p1", req.userId[1], outcome.entries,
                         Some(ListTitle(req.body[1], req.song[1])))
            /\ req' = [req EXCEPT !.st = "save"]
       ELSE /\ req' = [req EXCEPT !.st = "history"]
            /\ UNCHANGED dbVars
    /\ UNCHANGED <<env, resp, trace, settings, history, users, logins, defaults, got>>
    /\ UNCHANGED <<parseVars, orchVars>>

\* one statement of d1SaveVocabularyList for the request
RouteSaveStep ==
    /\ req.st = "save"
    /\ \/ InsertList("p1")
       \/ SelectWord("p1")
       \/ WriteWord("p1")
       \/ InsertSynonyms("p1")
       \/ UpsertRaises("p1")
       \/ SynonymsRaise("p1")
    /\ UNCHANGED <<parseVars, orchVars, apiVars>>

\* the save call rejected
SaveRejected ==
    /\ req.st = "save"
    /\ procs["p1"].st = "failed"
    /\ resp' = JsonError(500, "GENERATE_FAILED")
    /\ req' = [req EXCEPT !.st = "done"]
    /\ UNCHANGED <<env, trace, settings, history, users, logins, defaults, got>>
    /\ UNCHANGED <<parseVars, orchVars, dbVars>>

\* the history insert, whose failure is ignored, and the response
RespondWithEntries ==
    /\ \/ req.st = "save" /\ procs["p1"].st = "done"
       \/ req.st = "history"
    /\ trace' = Append(trace, Made("db", "INSERT_MUSIC_HISTORY_SQL", req.userId[1]))
    /\ \E stored \in BOOLEAN :
          history' = IF stored
                     THEN Append(history,
                                 [user |-> req.userId[1],
                                  video_id |-> Trim(req.body[1].song_title[1]),
                                  title |-> req.song[1].title \o <<" ", "-", " ">>
                                            \o req.song[1].artist,
                                  origin |-> "Genius"])
                     ELSE history
    /\ resp' = JsonSuccess(200, [entries |-> outcome.entries,
                                 saved |-> SaveEnabled(req.body[1]),
                                 song |-> [title |-> req.song[1].title,
                                           artist |-> req.song[1].artist]])
    /\ req' = [req EXCEPT !.st = "done"]
    /\ UNCHANGED <<env, settings, users, logins, defaults, got>>
    /\ UNCHANGED <<parseVars, orchVars, dbVars>>

\* Authorization headers a request may carry
AuthHeaders ==
    LET Header(prefix, token) == Some([prefix |-> prefix, token |-> token])
    IN { None,
         Header("Basic u", Some(Token(TRUE, Some("u1")))),
         Header("bearer ", Some(Token(TRUE, Some("u1")))),
         Header("Bearer ", None),
         Header("Bearer ", Some(Token(FALSE, Some("u1")))),
         Header("Bearer ", Some(Token(TRUE, None))),
         Header("Bearer ", Some(Token(TRUE, Some("")))),
         Header("Bearer ", Some(Token(TRUE, Some("u1")))),
         Header("Bearer ", Some(Token(TRUE, Some("u2")))) }

\* bodies of POST /vocabulary/generate; None is a body that is not JSON
GenerateBodies ==
    LET Body(song, title, save) == Some([song_title |-> song, title |-> title, save |-> save])
    IN { None,
         Body(None, None, None),
         Body(Some(<<" ">>), None, Some(TRUE)),
         Body(Some(<<"q">>), None, None),
         Body(Some(<<" ", "q">>), Some(<<"t", " ">>), Some(TRUE)),
         Body(Some(<<"q">>), Some(<<" ">>), Some(FALSE)) }

HistoryBodies ==
    { None,
      Some([video_id |-> Some(<<"v", " ">>), title |-> Some(<<"t">>)]),
      Some([video_id |-> Some(<<" ">>), title |-> Some(<<"t">>)]),
      Some([video_id |-> Some(<<"v">>), title |-> None]) }

BodiesOf(endpoint) ==
    IF endpoint = "POST /vocabulary/generate" THEN GenerateBodies
    ELSE IF endpoint = "POST /music/history" THEN HistoryBodies
    ELSE IF endpoint = "PATCH /user/settings"
    THEN {None, Some([language |-> Some("ko"), level |-> None, max_words |-> None,
                      min_length |-> Some(Num(6))])}
    ELSE {None}

\* one request has arrived; the tables hold two users and maybe settings of u1
InitRoute ==
    /\ ParseIdle
    /\ OrchIdle
    /\ DbIdle
    /\ env \in [jwtSecret : {None, Some(<<"k">>)}, geminiKey : {None, Some(<<"k">>)},
                db : BOOLEAN]
    /\ \E endpoint \in Endpoints \cup UnmatchedEndpoints, auth \in AuthHeaders :
          \E body \in BodiesOf(endpoint) :
              req = [ReqIdle EXCEPT !.st = "arrived", !.endpoint = endpoint,
                                    !.authorization = auth, !.body = body]
    /\ resp = RespNone
    /\ trace = <<>>
    /\ settings \in {{}, {[DefaultSettingsRow("u1") EXCEPT !.language = "ko",
                                                           !.max_words = Num(4)]}}
    /\ history = <<>>
    /\ users = {[id |-> "u1", provider |-> "google", providerUserId |-> "g1"],
                [id |-> "u2", provider |-> "google", providerUserId |-> "g2"]}
    /\ logins = [p \in Procs |-> LoginIdle]
    /\ defaults = DEFAULT_VOCABULARY_OPTIONS
    /\ got = None

NextRoute ==
    \/ AuthEndpoint
    \/ HandleRead
    \/ HandleUnmatched
    \/ HandlePatchSettings
    \/ HandlePostHistory
    \/ GenerateStart
    \/ SearchResolves
    \/ LyricsFetchFails
    \/ LyricsResolves
    \/ SettingsResolves
    \/ SettingsRejects
    \/ Enter
    \/ StreamChunk
    \/ StreamThrows
    \/ StreamEnds
    \/ StructuredResolves
    \/ StructuredThrows
    \/ GenerateThrew
    \/ GenerateReturned
    \/ RouteSaveStep
    \/ SaveRejected
    \/ RespondWithEntries

SpecRoute == InitRoute /\ [][NextRoute]_vars

----------------------------------------------------------------------------
(* getFallbackVocabulary over every short lyrics text                      *)

FallbackLen == 4

\* every text of up to FallbackLen characters over a stop word's letters, an upper-case
\* letter, a blank and a punctuation mark
FallbackLyrics ==
    UNION { [1..n -> {"a", "n", "B", " ", "."}] : n \in 1..FallbackLen }

\* both model stages have raised; the fallback extractor is about to run
InitFallback ==
    /\ text = <<>>
    /\ modelItems = <<>>
    /\ parsed = Returned("none", "", <<>>)
    /\ DbIdle
    /\ ApiIdle
    /\ pc = "structured"
    /\ apiKey = Some(<<"k">>)
    /\ lyrics \in FallbackLyrics
    /\ options \in [maxWords : {Some(n) : n \in 1..MaxWordsBound},
                    minLength : {Some(n) : n \in 1..MinLengthBound}]
    /\ maxWords = options.maxWords[1]
    /\ minLength = options.minLength[1]
    /\ pending = <<>>
    /\ structItems = <<>>
    /\ calls = [stream |-> 1, structured |-> 1, fallback |-> 0]
    /\ outcome = Outcome("none", "", <<>>, "none")

NextFallback == StructuredThrows

SpecFallback == InitFallback /\ [][NextFallback]_vars

----------------------------------------------------------------------------
(* extractLyricsFromHtml: the entity decoding of a lyrics container        *)

RECURSIVE ReplaceLiteral(_, _, _)
\* content.replace(/pat/g, rep) for a pattern without operators
ReplaceLiteral(s, pat, rep) ==
    IF Len(s) < Len(pat) THEN s
    ELSE IF SubSeq(s, 1, Len(pat)) = pat
         THEN rep \o ReplaceLiteral(SubSeq(s, Len(pat) + 1, Len(s)), pat, rep)
         ELSE <<Head(s)>> \o ReplaceLiteral(Tail(s), pat, rep)

RECURSIVE RunLength(_, _)
\* the length of the longest prefix of s made of characters of class
RunLength(s, class) ==
    IF s # <<>> /\ Head(s) \in class THEN 1 + RunLength(Tail(s), class) ELSE 0

\* String.fromCodePoint(parseInt(code, 16)) and String.fromCodePoint(Number(code)) for
\* the codes the inputs can spell; any other code point is one unit
FromCodePoint(code, base) ==
    CASE base = 16 /\ code = <<"2", "7">> -> "'"
      [] base = 10 /\ code = <<"3", "9">> -> "'"
      [] base = 10 /\ code = <<"3", "8">> -> "&"
      [] OTHER -> "other-code-point"

RECURSIVE ReplaceNumeric(_, _, _, _)
\* content.replace(/&#x([0-9a-f]+);/gi, ...) with prefix &#x, and
\* content.replace(/&#(\d+);/gi, ...) with prefix &#
ReplaceNumeric(s, prefix, class, base) ==
    IF s = <<>> THEN <<>>
    ELSE LET n == Len(prefix)
             run == IF Len(s) > n /\ SubSeq(s, 1, n) = prefix
                    THEN RunLength(SubSeq(s, n + 1, Len(s)), class) ELSE 0
         IN IF run > 0 /\ Len(s) > n + run /\ s[n + run + 1] = ";"
            THEN <<FromCodePoint(SubSeq(s, n + 1, n + run), base)>>
                 \o ReplaceNumeric(SubSeq(s, n + run + 2, Len(s)), prefix, class, base)
            ELSE <<Head(s)>> \o ReplaceNumeric(Tail(s), prefix, class, base)

HexDigits == {"0", "2", "3", "7", "8", "9", "a"}
DecDigits == {"0", "2", "3", "7", "8", "9"}

\* the chain of replace calls, in the order of the source
DecodeEntities(content) ==
    LET hex == ReplaceNumeric(content, <<"&", "#", "x">>, HexDigits, 16)
        dec == ReplaceNumeric(hex, <<"&", "#">>, DecDigits, 10)
        amp == ReplaceLiteral(dec, <<"&", "a", "m", "p", ";">>, <<"&">>)
        lt == ReplaceLiteral(amp, <<"&", "l", "t", ";">>, <<"<">>)
        gt == ReplaceLiteral(lt, <<"&", "g", "t", ";">>, <<">">>)
        quot == ReplaceLiteral(gt, <<"&", "q", "u", "o", "t", ";">>, <<"\"">>)
        apos == ReplaceLiteral(quot, <<"&", "a", "p", "o", "s", ";">>, <<"'">>)
        x27 == ReplaceLiteral(apos, <<"&", "#", "x", "2", "7", ";">>, <<"'">>)
    IN ReplaceLiteral(x27, <<"&", "#", "3", "9", ";">>, <<"'">>)

DecodeParts == 3

\* pieces the text of a container is built from
ContainerPieces ==
    { <<"&", "a", "m", "p", ";">>, <<"&", "l", "t", ";">>, <<"&", "g", "t", ";">>,
      <<"&", "#", "3", "9", ";">>, <<"&", "#", "3", "8", ";">>, <<"&", "#", "x", "2", "7", ";">>,
      <<"l", "t", ";">>, <<"#", "3", "9", ";">>, <<"&">>, <<"a">>, <<" ">> }

\* the text of one lyrics container once its tags are removed
ContainerTexts ==
    { Concat(ps) : ps \in SeqsUpTo(ContainerPieces, DecodeParts) }

InitExtract ==
    /\ ParseIdle
    /\ OrchIdle
    /\ DbIdle
    /\ env = [jwtSecret |-> None, geminiKey |-> None, db |-> TRUE]
    /\ req \in { [ReqIdle EXCEPT !.st = "lyrics", !.song = Some(t)] : t \in ContainerTexts }
    /\ resp = RespNone
    /\ trace = <<>>
    /\ settings = {}
    /\ history = <<>>
    /\ users = {}
    /\ logins = [p \in Procs |-> LoginIdle]
    /\ defaults = DEFAULT_VOCABULARY_OPTIONS
    /\ got = None

\* extractLyricsFromHtml on a page with one container, whose text is req.song
ExtractLyrics ==
    /\ req.st = "lyrics"
    /\ got = None
    /\ LET content == Trim(DecodeEntities(req.song[1]))
       IN got' = Some(IF content = <<>>
                      THEN [status |-> "threw", lyrics |-> <<>>]
                      ELSE [status |-> "returned", lyrics |-> content])
    /\ UNCHANGED <<env, req, resp, trace, settings, history, users, logins, defaults>>
    /\ UNCHANGED <<parseVars, orchVars, dbVars>>

NextExtract == ExtractLyrics

SpecExtract == InitExtract /\ [][NextExtract]_vars

----------------------------------------------------------------------------
(* Claims about parseVocabularyResponse, stated against the array the      *)
(* model meant to emit (modelItems), not against the parser's own steps    *)

RefIsCandidate(i) ==
    /\ modelItems[i].k = "object"
    /\ IsString(Prop(modelItems[i], "word"))
    /\ Len(Trim(Prop(modelItems[i], "word")[1].s)) >= minLength
RefWord(i) == Trim(Prop(modelItems[i], "word")[1].s)
RefFold(i) == ToLowerCase(RefWord(i))
RefNumber(i, key) ==
    IF IsNumber(Prop(modelItems[i], key)) THEN Some(Prop(modelItems[i], key)[1].n) ELSE None
RefString(i, key) ==
    IF IsString(Prop(modelItems[i], key)) THEN Some(Prop(modelItems[i], key)[1].s) ELSE None
\* the candidate list: normalized and minLength-filtered, before dedup and truncation
RefCandidates == {i \in DOMAIN modelItems : RefIsCandidate(i)}
\* the first candidate of each case-folded word
RefFirst == {i \in RefCandidates : \A j \in RefCandidates : j < i => RefFold(j) # RefFold(i)}
\* the deduplicated list, as ascending indices into modelItems
RefKept ==
    LET IsFirst(i) == i \in RefFirst
    IN SelectSeq([i \in 1..Len(modelItems) |-> i], IsFirst)

\* C6: no two entries returned by parseVocabularyResponse have words equal after
\* case-folding, and the entry kept for a case-folded word is the first one of the
\* model's list: its casing and its fields.
C6_DedupeKeepsFirst ==
    parsed.status = "ok" =>
        /\ \A a, b \in DOMAIN parsed.entries :
               a # b => ToLowerCase(parsed.entries[a].word) # ToLowerCase(parsed.entries[b].word)
        /\ \A a \in DOMAIN parsed.entries :
               \E i \in RefFirst :
                   /\ RefFold(i) = ToLowerCase(parsed.entries[a].word)
                   /\ parsed.entries[a].word = RefWord(i)
                   /\ parsed.entries[a].score = RefNumber(i, "score")
                   /\ parsed.entries[a].meaning = RefString(i, "meaning")
                   /\ parsed.entries[a].example = RefString(i, "example")

\* two candidates differ only in case and the first one was returned
C6_Witness ==
    /\ parsed.status = "ok"
    /\ \E i, j \in RefCandidates :
           /\ i < j /\ i \in RefFirst
           /\ RefFold(i) = RefFold(j) /\ RefWord(i) # RefWord(j)
           /\ RefNumber(i, "score") # RefNumber(j, "score")
           /\ \E a \in DOMAIN parsed.entries : parsed.entries[a].word = RefWord(i)

\* C7: occurrences of a returned entry is the number of elements of the normalized,
\* minLength-filtered candidate list (before dedup and truncation) whose word
\* case-folds to the same string; it is at least 1.
C7_OccurrencesCountCandidates ==
    parsed.status = "ok" =>
        \A a \in DOMAIN parsed.entries :
            /\ parsed.entries[a].occurrences =
                   Some(Cardinality({i \in RefCandidates :
                                        RefFold(i) = ToLowerCase(parsed.entries[a].word)}))
            /\ parsed.entries[a].occurrences[1] >= 1

\* an entry counted twice under different casings, in a result that was truncated
C7_Witness ==
    /\ parsed.status = "ok"
    /\ Len(RefKept) > maxWords
    /\ \E a \in DOMAIN parsed.entries :
           /\ parsed.entries[a].occurrences = Some(2)
           /\ \E i, j \in RefCandidates :
                  i # j /\ RefWord(i) # RefWord(j)
                  /\ RefFold(i) = RefFold(j)
                  /\ RefFold(i) = ToLowerCase(parsed.entries[a].word)

\* C8: parseVocabularyResponse returns at most maxWords entries: exactly the first
\* maxWords entries of the deduplicated list, in their original relative order.
C8_TruncatesToMaxWords ==
    parsed.status = "ok" =>
        /\ Len(parsed.entries) <= maxWords
        /\ Len(parsed.entries) = Min(maxWords, Len(RefKept))
        /\ \A a \in DOMAIN parsed.entries : parsed.entries[a].word = RefWord(RefKept[a])

\* the deduplicated list was longer than maxWords
C8_Witness ==
    /\ parsed.status = "ok"
    /\ Len(RefKept) > maxWords
    /\ Len(parsed.entries) = maxWords

\* C9: every returned entry has a trimmed word of length at least minLength;
\* candidates whose trimmed word is shorter are dropped.
C9_WordsAtLeastMinLength ==
    parsed.status = "ok" =>
        /\ \A a \in DOMAIN parsed.entries :
               /\ parsed.entries[a].word = Trim(parsed.entries[a].word)
               /\ Len(parsed.entries[a].word) >= minLength
        /\ \A i \in DOMAIN modelItems :
               (IsString(Prop(modelItems[i], "word"))
                    /\ Len(Trim(Prop(modelItems[i], "word")[1].s)) < minLength)
               => \A a \in DOMAIN parsed.entries :
                      parsed.entries[a].word # Trim(Prop(modelItems[i], "word")[1].s)

\* a word long enough as written but too short once trimmed was dropped,
\* next to one that was kept
C9_Witness ==
    /\ parsed.status = "ok"
    /\ Len(parsed.entries) >= 1
    /\ \E i \in DOMAIN modelItems :
           /\ IsString(Prop(modelItems[i], "word"))
           /\ Len(Prop(modelItems[i], "word")[1].s) >= minLength
           /\ Len(Trim(Prop(modelItems[i], "word")[1].s)) < minLength

----------------------------------------------------------------------------
(* Claims about createVocabularyFromLyrics                                 *)

HasCredential == apiKey # None /\ apiKey # Some(<<>>)

C10_MissingKeyFailsFirst ==
    (apiKey = None \/ apiKey = Some(<<>>)) =>
        /\ pc \in {"call", "done"}
        /\ calls = [stream |-> 0, structured |-> 0, fallback |-> 0]
        /\ text = <<>>
        /\ parsed.status = "none"
        /\ pc = "done" =>
               /\ outcome.status = "threw"
               /\ outcome.error = "GEMINI_API_KEY is required in env"

\* the call ended with an empty credential
C10_Witness ==
    /\ pc = "done"
    /\ apiKey = Some(<<>>)
    /\ outcome.status = "threw"
    /\ pending # <<>>

----------------------------------------------------------------------------
(* Claims about the save calls                                             *)

\* what an entry adds to its word's count: its occurrences, 1 when it carries none
RefOccurrences(e) == IF e.occurrences = None THEN 1 ELSE e.occurrences[1]

RECURSIVE RefContribution(_, _)
\* what the entries of one call add to the count of `word`
RefContribution(entries, word) ==
    IF entries = <<>> THEN 0
    ELSE (IF Trim(Head(entries).word) = word THEN RefOccurrences(Head(entries)) ELSE 0)
         + RefContribution(Tail(entries), word)

RECURSIVE RefMeaning(_, _, _)
\* the meaning of `word` after the entries: the last one supplied, else the old one
RefMeaning(entries, word, old) ==
    IF entries = <<>> THEN old
    ELSE RefMeaning(Tail(entries), word,
                    IF Trim(Head(entries).word) = word /\ Head(entries).meaning # None
                    THEN Head(entries).meaning ELSE old)

\* the non-empty trimmed words of a call
RefSaveWords(entries) == {Trim(entries[i].word) : i \in DOMAIN entries} \ {<<>>}

RefRows(rows, user, word) == {r \in rows : r.user = user /\ r.word = word}

RefCount(rows, user, word) ==
    IF RefRows(rows, user, word) = {} THEN 0
    ELSE (CHOOSE r \in RefRows(rows, user, word) : TRUE).count

RefOldMeaning(rows, user, word) ==
    IF RefRows(rows, user, word) = {} THEN None
    ELSE (CHOOSE r \in RefRows(rows, user, word) : TRUE).meaning

\* the n-th call of a sequential run has returned
RefReturned(n) == n < Len(saveLog) \/ procs[saveLog[n].proc].st = "done"

\* user_words as the n-th call of a sequential run left it
RefWordsAfter(n) == IF n < Len(saveLog) THEN saveLog[n + 1].words ELSE userWords

\* C3 as claimed: of two save calls of one user that run at once and share a word, both
\* complete without error, and the word's count ends at its prior count plus the
\* occurrences both calls carry for it.
C3_ConcurrentSavesBothCount ==
    (\A p \in Procs : procs[p].st \in {"done", "failed"}) =>
        \A word \in RefSaveWords(saveLog[1].entries) \cap RefSaveWords(saveLog[2].entries) :
            /\ \A p \in Procs : procs[p].st = "done"
            /\ RefCount(userWords, "u1", word)
                 = RefCount(saveLog[1].words, "u1", word)
                   + RefContribution(saveLog[1].entries, word)
                   + RefContribution(saveLog[2].entries, word)

\* with the single-statement upsert (ON CONFLICT DO UPDATE) the two calls both complete
\* and both count
ConcurrentUpsertsBothCount == backend = "pg" => C3_ConcurrentSavesBothCount

\* with SELECT-then-write, two calls that run at once can only miss an increment by
\* failing: a stored word's count is never short of what the completed calls carry
ConcurrentUpdatesNotLost ==
    (\A p \in Procs : procs[p].st = "done") => C3_ConcurrentSavesBothCount

\* C4: a save call, for each entry with a non-empty trimmed word: a stored row of exactly
\* that (user, word) gets its count raised by the entry's occurrences (1 when the entry
\* carries none) and its meaning replaced only by a non-null meaning; a word not stored
\* gets one new row whose count is the occurrences.  Rows of other users and of other
\* words, a row differing only in case among them, are left as they were.
C4_UpsertAccumulates ==
    \A n \in DOMAIN saveLog :
        RefReturned(n) =>
            LET user == saveLog[n].user
                entries == saveLog[n].entries
                before == saveLog[n].words
                after == RefWordsAfter(n)
                touched(r) == r.user = user /\ r.word \in RefSaveWords(entries)
            IN /\ \A word \in RefSaveWords(entries) :
                     /\ Cardinality(RefRows(after, user, word)) = 1
                     /\ RefCount(after, user, word)
                          = RefCount(before, user, word) + RefContribution(entries, word)
                     /\ RefOldMeaning(after, user, word)
                          = RefMeaning(entries, word, RefOldMeaning(before, user, word))
                     /\ \A r \in RefRows(before, user, word) :
                           \E q \in RefRows(after, user, word) : q.id = r.id
               /\ {r \in after : ~touched(r)} = {r \in before : ~touched(r)}

\* u1 had "ab" stored with count 2 and a meaning; a call carrying "ab" without meaning or
\* occurrences and "Ab" left "ab" at count 3 with its meaning and made a row for "Ab"
C4_Witness ==
    /\ Len(saveLog) = 2
    /\ procs["p1"].st = "done"
    /\ saveLog[2].user = "u1"
    /\ saveLog[2].entries = <<EntryAbBare, EntryAbUpper>>
    /\ \E r \in saveLog[2].words :
          r.user = "u1" /\ r.word = <<"a", "b">> /\ r.count = 2 /\ r.meaning = Some(<<"m", "1">>)
    /\ \E r \in userWords :
          r.user = "u1" /\ r.word = <<"a", "b">> /\ r.count = 3 /\ r.meaning = Some(<<"m", "1">>)
    /\ \E r \in userWords :
          r.user = "u1" /\ r.word = <<"A", "b">> /\ r.count = 1
    /\ RefRows(saveLog[2].words, "u1", <<"A", "b">>) = {}

\* C5: two save calls in sequence with the same entries leave every word's count raised
\* by twice what one call carries for the word, and word_synonyms never holds two rows
\* with the same (word id, synonym).
C5_TwiceDoublesCountKeepsSynonymSets ==
    /\ \A n \in DOMAIN saveLog :
          (/\ n + 1 \in DOMAIN saveLog
           /\ saveLog[n].user = saveLog[n + 1].user
           /\ saveLog[n].entries = saveLog[n + 1].entries
           /\ RefReturned(n + 1)) =>
              \A word \in RefSaveWords(saveLog[n].entries) :
                  RefCount(RefWordsAfter(n + 1), saveLog[n].user, word)
                    = RefCount(saveLog[n].words, saveLog[n].user, word)
                      + 2 * RefContribution(saveLog[n].entries, word)
    /\ \A r \in wordSynonyms, q \in wordSynonyms :
          (r.wordId = q.wordId /\ r.synonym = q.synonym) => r = q

\* u1 saved "ab" (2 occurrences, synonyms s and t) and " ab " twice over: the count is
\* 6 and the word has its two synonym rows
C5_Witness ==
    /\ Len(saveLog) = 2
    /\ procs["p1"].st = "done"
    /\ saveLog[1].user = "u1" /\ saveLog[2].user = "u1"
    /\ saveLog[1].entries = <<EntryAbTwice, EntryAbPadded>>
    /\ saveLog[2].entries = <<EntryAbTwice, EntryAbPadded>>
    /\ \E r \in userWords :
          /\ r.user = "u1" /\ r.word = <<"a", "b">> /\ r.count = 6
          /\ {q.synonym : q \in {x \in wordSynonyms : x.wordId = r.id}} = {<<"s">>, <<"t">>}
    /\ Cardinality(wordSynonyms) = 2

----------------------------------------------------------------------------
(* Settings updates and option lookups                                     *)

MaxUpdates == 2        \* settings updates made in a run

\* rows user_vocabulary_settings can hold for u1: the created default, updated rows,
\* and what an update without validation stores
StoredSettings ==
    LET Row(lang, lv, max, min) ==
            [user |-> "u1", language |-> lang, level |-> lv, max_words |-> max, min_length |-> min]
    IN { Row("en", "intermediate", Num(60), Num(4)),
         Row("ko", "advanced", Num(100), Num(6)),
         Row("ko", "beginner", Num(400), Num(40)),
         Row("en", "beginner", Num(2), Num(2)),
         Row("fr", "expert", Num(0), Num(0)),
         Row("KO", "Advanced", Num(402), Num(42)),
         Row("en", "advanced", Num(-2), NotNumeral),
         Row("en", "intermediate", NotNumeral, Num(4)),
         Row("ko", "intermediate", Num(3), Num(4)) }

\* bodies of PATCH /user/settings
SettingsPayloads ==
    LET Body(lang, lv, max, min) ==
            [language |-> lang, level |-> lv, max_words |-> max, min_length |-> min]
    IN { Body(None, None, None, None),
         Body(Some("ko"), None, None, None),
         Body(Some("ko"), Some("advanced"), Some(Num(100)), None),
         Body(None, None, None, Some(Num(6))),
         Body(None, Some("expert"), Some(Num(3)), None),
         Body(Some("fr"), None, Some(NotNumeral), Some(Num(0))) }

\* d1UpdateUserVocabularySettings / updateUserVocabularySettings for one request
UpdateSettings ==
    /\ Len(trace) < MaxUpdates
    /\ \E user \in {"u1"}, payload \in SettingsPayloads :
          /\ trace' = Append(trace, [op |-> "updateSettings", user |-> user, payload |-> payload,
                                     found |-> SelectSettings(settings, user)])
          /\ IF backend = "pg" /\ UpsertSettingsRaises(payload)
             THEN /\ resp' = [status |-> 500, code |-> "UPDATE_FAILED"]
                  /\ UNCHANGED settings
             ELSE /\ settings' = UpsertSettings(settings, user, payload)
                  /\ resp' = [status |-> 200, code |-> "ok",
                              data |-> UpdatedSettings(backend, settings', user, payload)]
    /\ UNCHANGED <<env, req, history, users, logins, defaults, got>>
    /\ UNCHANGED <<parseVars, orchVars, dbVars>>

\* getVocabularyOptionsForUser(userId, getSettings) with the lookup on the table
GetOptions ==
    /\ \E user \in SaveUsers :
          LET r == getVocabularyOptionsForUser(settings, user, defaults)
          IN got' = Some([row |-> SelectSettings(settings, user), alias |-> r.alias,
                          value |-> r.value, changed |-> FALSE])
    /\ UNCHANGED <<env, req, resp, trace, settings, history, users, logins, defaults>>
    /\ UNCHANGED <<parseVars, orchVars, dbVars>>

\* the caller assigns to a field of the object it was returned
ChangeResult ==
    /\ got # None
    /\ ~got[1].changed
    /\ \E lang \in {"ko", "fr"}, max \in {Num(2), Num(402)} :
          LET changedValue == [got[1].value EXCEPT !.language = lang, !.maxWords = max]
          IN /\ got' = Some([got[1] EXCEPT !.value = changedValue, !.changed = TRUE])
             /\ defaults' = IF got[1].alias THEN changedValue ELSE defaults
    /\ UNCHANGED <<env, req, resp, trace, settings, history, users, logins>>
    /\ UNCHANGED <<parseVars, orchVars, dbVars>>

InitSettings ==
    /\ ParseIdle
    /\ OrchIdle
    /\ backend \in {"d1", "pg"}
    /\ userWords = {} /\ wordSynonyms = {} /\ vocabularyLists = <<>> /\ nextId = 1
    /\ procs = [p \in Procs |-> IdleProc]
    /\ saveLog = <<>>
    /\ env = [jwtSecret |-> None, geminiKey |-> None, db |-> TRUE]
    /\ req = ReqIdle
    /\ resp = RespNone
    /\ trace = <<>>
    /\ \/ settings = {}
       \/ \E row \in StoredSettings :
             /\ backend = "pg" => IsInt(row.max_words) /\ IsInt(row.min_length)
             /\ settings = {row}
    /\ history = <<>>
    /\ users = {}
    /\ logins = [p \in Procs |-> LoginIdle]
    /\ defaults = DEFAULT_VOCABULARY_OPTIONS
    /\ got = None

NextSettings == UpdateSettings \/ GetOptions \/ ChangeResult

SpecSettings == InitSettings /\ [][NextSettings]_vars

----------------------------------------------------------------------------
(* Claims about the settings                                               *)

RefLastUpdate == trace[Len(trace)]

\* C14 as claimed: an update applies only the fields present in the body: for a user
\* with a stored settings row every field absent from the body keeps its stored value,
\* and the settings returned are the stored row after the update.
C14_AbsentFieldsKept ==
    (trace # <<>> /\ resp.status = 200 /\ RefLastUpdate.found # None) =>
        LET body == RefLastUpdate.payload
            before == RefLastUpdate.found[1]
            after == CHOOSE r \in settings : r.user = RefLastUpdate.user
        IN /\ body.language = None => after.language = before.language
           /\ body.level = None => after.level = before.level
           /\ body.max_words = None => after.max_words = before.max_words
           /\ body.min_length = None => after.min_length = before.min_length
           /\ resp.data = [language |-> after.language, level |-> after.level,
                           max_words |-> after.max_words, min_length |-> after.min_length]

\* what does hold: the fields present in the body are stored, and the settings returned
\* are the stored row after the update
UpdateStoresPresentFields ==
    (trace # <<>> /\ resp.status = 200) =>
        LET body == RefLastUpdate.payload
            after == CHOOSE r \in settings : r.user = RefLastUpdate.user
        IN /\ body.language # None => after.language = body.language[1]
           /\ body.level # None => after.level = body.level[1]
           /\ body.max_words # None => after.max_words = body.max_words[1]
           /\ body.min_length # None => after.min_length = body.min_length[1]
           /\ resp.data = [language |-> after.language, level |-> after.level,
                           max_words |-> after.max_words, min_length |-> after.min_length]

\* C19 as claimed: for any stored settings row the options returned are inside the
\* valid domain: language en or ko, level beginner, intermediate or advanced, maxWords
\* an integer in 1..200 and minLength an integer in 1..20.
C19_OptionsInDomain ==
    (got # None /\ ~got[1].changed) =>
        LET o == got[1].value
        IN /\ o.language \in {"en", "ko"}
           /\ o.level \in {"beginner", "intermediate", "advanced"}
           /\ o.maxWords.t = "number" /\ o.maxWords.halves % 2 = 0
           /\ o.maxWords.halves \div 2 \in 1..200
           /\ o.minLength.t = "number" /\ o.minLength.halves % 2 = 0
           /\ o.minLength.halves \div 2 \in 1..20

\* what does hold: the enumerated fields are in their domains and the numeric fields are
\* numbers within 1..200 and 1..20, whole or not
OptionsInRange ==
    (got # None /\ ~got[1].changed) =>
        LET o == got[1].value
        IN /\ o.language \in {"en", "ko"}
           /\ o.level \in {"beginner", "intermediate", "advanced"}
           /\ o.maxWords.t = "number" /\ o.maxWords.halves >= 2 /\ o.maxWords.halves <= 400
           /\ o.minLength.t = "number" /\ o.minLength.halves >= 2 /\ o.minLength.halves <= 40

\* C20: with no settings row for the user the options returned are exactly
\* {language: en, level: intermediate, maxWords: 30, minLength: 2}, and the object is a
\* new one: whatever the caller assigns to it, the defaults stay as they are for the
\* calls that follow.
C20_DefaultsWhenNoRow ==
    /\ defaults = [language |-> "en", level |-> "intermediate",
                   maxWords |-> [t |-> "number", halves |-> 60],
                   minLength |-> [t |-> "number", halves |-> 4]]
    /\ (got # None /\ got[1].row = None /\ ~got[1].changed) =>
           got[1].value = [language |-> "en", level |-> "intermediate",
                           maxWords |-> [t |-> "number", halves |-> 60],
                           minLength |-> [t |-> "number", halves |-> 4]]

\* a caller got the options of a user without a row and assigned to them
C20_Witness ==
    /\ got # None
    /\ got[1].row = None
    /\ got[1].changed
    /\ got[1].value.language = "fr"
    /\ defaults.language = "en"

----------------------------------------------------------------------------
(* Claims about save calls whose statements fail                           *)

\* the entries other than the i-th whose synonyms the call would store
RefOtherSynonymEntries(pr, i) ==
    {j \in DOMAIN pr.entries :
        /\ j # i
        /\ pr.entries[j].synonyms # None
        /\ Trim(pr.entries[j].word) # <<>>}

\* C16 as claimed: a failure while inserting the synonyms of one word is swallowed: the
\* save call goes on and completes without error, and the synonyms of the other words
\* of the batch are inserted.
C16_SynonymFailureSwallowed ==
    \A p \in Procs :
        procs[p].raisedIn = "synonyms" =>
            /\ procs[p].st \in {"synonyms", "done"}
            /\ procs[p].st = "done" =>
                  \A j \in RefOtherSynonymEntries(procs[p], procs[p].i) :
                      \A k \in DOMAIN procs[p].entries[j].synonyms[1] :
                          Trim(procs[p].entries[j].synonyms[1][k]) # <<>> =>
                              \E r \in wordSynonyms :
                                  r.synonym = Trim(procs[p].entries[j].synonyms[1][k])

\* the calls that have run their snapshot insert
RefSnapshotsDue ==
    Len(saveLog) - Cardinality({p \in Procs : procs[p].st = "list"})

----------------------------------------------------------------------------
(* Claims about getFallbackVocabulary                                      *)

\* the lyrics in lower case
RefLowered(s) ==
    [i \in DOMAIN s |-> IF s[i] = "A" THEN "a" ELSE IF s[i] = "B" THEN "b"
                        ELSE IF s[i] = "C" THEN "c" ELSE s[i]]

\* s[a..b] is a maximal run of word characters
RefTokenAt(s, a, b) ==
    /\ a <= b
    /\ \A k \in a..b : s[k] \notin {" ", ".", "!", "'"}
    /\ a = 1 \/ s[a - 1] \in {" ", ".", "!", "'"}
    /\ b = Len(s) \/ s[b + 1] \in {" ", ".", "!", "'"}

\* the tokens the extractor may return: long enough and no stop word
RefEligible(s, minLen) ==
    { w \in { SubSeq(s, a, b) : a \in DOMAIN s, b \in DOMAIN s } :
        /\ \E a \in DOMAIN s, b \in DOMAIN s : RefTokenAt(s, a, b) /\ SubSeq(s, a, b) = w
        /\ Len(w) >= minLen
        /\ w \notin {<<"a">>, <<"a", "n">>, <<"b", "e">>, <<"c", "a", "n">>} }

\* where a token is first seen
RefFirstSeen(s, w) ==
    CHOOSE a \in DOMAIN s :
        /\ \E b \in DOMAIN s : RefTokenAt(s, a, b) /\ SubSeq(s, a, b) = w
        /\ \A c \in 1..(a - 1) : ~\E b \in DOMAIN s : RefTokenAt(s, c, b) /\ SubSeq(s, c, b) = w

\* C21: the fallback extractor returns (it never raises), every entry has occurrences = 1,
\* and the words are lower-case tokens of the lyrics, pairwise distinct, in first-seen
\* order, at most maxWords (the first maxWords of them), each at least minLength long and
\* none a stop word.
C21_FallbackWords ==
    outcome.stage = "fallback" =>
        LET low == RefLowered(lyrics)
            es == outcome.entries
            ok == RefEligible(low, minLength)
        IN /\ outcome.status = "returned"
           /\ Len(es) = IF Cardinality(ok) < maxWords THEN Cardinality(ok) ELSE maxWords
           /\ \A i \in DOMAIN es :
                 /\ es[i].occurrences = Some(1)
                 /\ es[i].word \in ok
                 /\ \A k \in DOMAIN es[i].word : es[i].word[k] \notin {"A", "B", "C"}
                 /\ Len(es[i].word) >= minLength
                 /\ \A w \in ok :
                       RefFirstSeen(low, w) < RefFirstSeen(low, es[i].word) =>
                           \E j \in 1..(i - 1) : es[j].word = w
           /\ \A i \in DOMAIN es, j \in DOMAIN es :
                 i < j => /\ es[i].word # es[j].word
                          /\ RefFirstSeen(low, es[i].word) < RefFirstSeen(low, es[j].word)

C21_Witness ==
    /\ outcome.stage = "fallback"
    /\ lyrics = <<"B", " ", "B", ".">>
    /\ minLength = 1
    /\ maxWords = 2
    /\ Len(outcome.entries) = 1
    /\ outcome.entries[1].word = <<"b">>

----------------------------------------------------------------------------
(* Claims about the stages of createVocabularyFromLyrics                   *)

\* the streamed text as a whole is valid JSON and its value is no array
RefNonArrayJson(t) ==
    LET r == JSONParse(Trim(t)) IN r.ok /\ r.val.k # "array"

\* the parser has run and nothing ran after it
RefStreamReturned(entries) ==
    /\ parsed = [status |-> "ok", error |-> "", entries |-> entries]
    /\ pc = "done"
    /\ outcome = [status |-> "returned", error |-> "", entries |-> entries, stage |-> "stream"]
    /\ calls = [stream |-> 1, structured |-> 0, fallback |-> 0]

\* C22 as claimed: when the streamed output is valid JSON that is not an array, the
\* parser returns an empty list and createVocabularyFromLyrics returns it without the
\* structured stage or the fallback extractor.
C22_NonArrayGivesEmpty ==
    (parsed.status # "none" /\ RefNonArrayJson(text)) => RefStreamReturned(<<>>)

\* C22 as amended: when the streamed output is valid JSON that is not an array and holds
\* no "[", the parser returns an empty list and createVocabularyFromLyrics returns it
\* without the structured stage or the fallback extractor; a bracketed region inside the
\* output is parsed in place of the output.
C22_NonArrayWithoutBracket ==
    (/\ parsed.status # "none"
     /\ RefNonArrayJson(text)
     /\ \A i \in DOMAIN text : text[i] # "[") => RefStreamReturned(<<>>)

C22_Witness ==
    /\ text = <<"{", "}">>
    /\ RefStreamReturned(<<>>)
    /\ apiKey = Some(<<"k">>)

\* the stages in order, each at most once, and the result that of the first stage that
\* did not raise
RefStagesInOrder ==
    /\ calls.stream <= 1 /\ calls.structured <= 1 /\ calls.fallback <= 1
    /\ calls.structured = 1 => (calls.stream = 1 /\ parsed.status # "ok")
    /\ calls.fallback = 1 => (calls.structured = 1 /\ pc = "done")
    /\ parsed.status = "ok" =>
          (calls.structured = 0 /\ outcome.stage = "stream" /\ outcome.entries = parsed.entries)
    /\ pc = "structured" <=> (calls.structured = 1 /\ outcome.status = "none")
    /\ (pc = "done" /\ calls.stream = 1) =>
          /\ outcome.status = "returned"
          /\ outcome.stage = "stream" <=> calls.structured = 0
          /\ outcome.stage = "structured" <=> (calls.structured = 1 /\ calls.fallback = 0)
          /\ outcome.stage = "fallback" <=> calls.fallback = 1
          /\ outcome.stage = "structured" =>
                outcome.entries = NormalizeStructured(structItems, maxWords, minLength)
          /\ outcome.stage = "fallback" =>
                outcome.entries = getFallbackVocabulary(lyrics, maxWords, minLength)

\* C23 as claimed: in every execution the streaming call is made exactly once, the
\* structured call at most once and only after the streaming stage raised, the fallback
\* at most once and only after the structured stage raised, and the returned list is
\* the output of the first stage that did not raise.
C23_EveryRunStreamsOnce ==
    /\ pc \in {"streaming", "structured", "done"} => calls.stream = 1
    /\ RefStagesInOrder

\* C23 as amended: in every execution that passes the credential check the streaming
\* call is made exactly once (with the credential missing or empty no stage runs at
\* all); the structured call is made at most once and only after the streaming stage
\* raised, the fallback at most once and only after the structured stage raised, and the
\* returned list is the output of the first stage that did not raise.
C23_StagesInOrder ==
    /\ (pc \in {"streaming", "structured", "done"} /\ apiKey \notin {None, Some(<<>>)}) =>
          calls.stream = 1
    /\ apiKey \in {None, Some(<<>>)} =>
          calls = [stream |-> 0, structured |-> 0, fallback |-> 0]
    /\ RefStagesInOrder

C23_Witness ==
    /\ pc = "done"
    /\ calls = [stream |-> 1, structured |-> 1, fallback |-> 1]
    /\ outcome.stage = "fallback"
    /\ parsed.status = "throw"
    /\ outcome.entries # <<>>

\* C24 as claimed: every result returned by createVocabularyFromLyrics, whichever stage
\* produced it, has non-empty words that are pairwise distinct when compared without
\* regard to case.
C24_ResultWordsDistinct ==
    (pc = "done" /\ outcome.status = "returned") =>
        /\ \A i \in DOMAIN outcome.entries : Len(outcome.entries[i].word) > 0
        /\ \A i \in DOMAIN outcome.entries, j \in DOMAIN outcome.entries :
              i < j => RefLowered(outcome.entries[i].word) # RefLowered(outcome.entries[j].word)

\* the results of the streaming stage and of the fallback extractor do have such words
StreamAndFallbackWordsDistinct ==
    (pc = "done" /\ outcome.stage \in {"stream", "fallback"}) =>
        /\ \A i \in DOMAIN outcome.entries : Len(outcome.entries[i].word) > 0
        /\ \A i \in DOMAIN outcome.entries, j \in DOMAIN outcome.entries :
              i < j => RefLowered(outcome.entries[i].word) # RefLowered(outcome.entries[j].word)

\* C25 as claimed: every entry returned by the structured-output stage has a trimmed word
\* of length at least minLength and occurrences = 1, and the stage returns at most
\* maxWords entries.
C25_StructuredEntriesFiltered ==
    outcome.stage = "structured" =>
        /\ Len(outcome.entries) <= maxWords
        /\ \A i \in DOMAIN outcome.entries :
              /\ outcome.entries[i].occurrences = Some(1)
              /\ outcome.entries[i].word = Trim(outcome.entries[i].word)
              /\ Len(outcome.entries[i].word) >= minLength

\* what does hold of the structured stage: trimmed words, occurrences = 1, at most
\* maxWords entries, each from an item whose untrimmed word is at least minLength long
StructuredEntriesBounded ==
    outcome.stage = "structured" =>
        /\ Len(outcome.entries) <= maxWords
        /\ \A i \in DOMAIN outcome.entries :
              /\ outcome.entries[i].occurrences = Some(1)
              /\ outcome.entries[i].word = Trim(outcome.entries[i].word)
              /\ \E k \in DOMAIN structItems :
                    /\ Trim(structItems[k].word) = outcome.entries[i].word
                    /\ Len(structItems[k].word) >= minLength

----------------------------------------------------------------------------
(* Claims about the synonyms of parsed entries                             *)

\* C26 as claimed: in every entry the parser returns, synonyms is absent or a non-empty
\* list of trimmed, non-empty, pairwise distinct strings.
C26_SynonymsDistinct ==
    parsed.status = "ok" =>
        \A i \in DOMAIN parsed.entries :
            LET syn == parsed.entries[i].synonyms IN
            syn # <<>> =>
                /\ Len(syn[1]) > 0
                /\ \A k \in DOMAIN syn[1] :
                      /\ Len(syn[1][k]) > 0
                      /\ syn[1][k][1] # " "
                      /\ syn[1][k][Len(syn[1][k])] # " "
                /\ \A k \in DOMAIN syn[1], l \in DOMAIN syn[1] : k < l => syn[1][k] # syn[1][l]

\* what does hold: synonyms is absent or a non-empty list of trimmed, non-empty strings
SynonymsTrimmedNonEmpty ==
    parsed.status = "ok" =>
        \A i \in DOMAIN parsed.entries :
            LET syn == parsed.entries[i].synonyms IN
            syn # <<>> =>
                /\ Len(syn[1]) > 0
                /\ \A k \in DOMAIN syn[1] :
                      /\ Len(syn[1][k]) > 0
                      /\ syn[1][k][1] # " "
                      /\ syn[1][k][Len(syn[1][k])] # " "

----------------------------------------------------------------------------
(* Claims about the entity decoding of lyrics                              *)

\* the character an entity at the head of s stands for, with the entity's length;
\* length 0 when no entity starts there
RefEntityAt(s) ==
    LET Starts(e) == Len(s) >= Len(e) /\ SubSeq(s, 1, Len(e)) = e
    IN CASE Starts(<<"&", "a", "m", "p", ";">>) -> [len |-> 5, char |-> "&"]
         [] Starts(<<"&", "l", "t", ";">>) -> [len |-> 4, char |-> "<"]
         [] Starts(<<"&", "g", "t", ";">>) -> [len |-> 4, char |-> ">"]
         [] Starts(<<"&", "#", "3", "9", ";">>) -> [len |-> 5, char |-> "'"]
         [] Starts(<<"&", "#", "3", "8", ";">>) -> [len |-> 5, char |-> "&"]
         [] Starts(<<"&", "#", "x", "2", "7", ";">>) -> [len |-> 6, char |-> "'"]
         [] OTHER -> [len |-> 0, char |-> ""]

RECURSIVE RefDecodeOnce(_)
\* one pass from left to right: every reference is decoded once, its result never again
RefDecodeOnce(s) ==
    IF s = <<>> THEN <<>>
    ELSE LET e == RefEntityAt(s)
         IN IF e.len > 0 THEN <<e.char>> \o RefDecodeOnce(SubSeq(s, e.len + 1, Len(s)))
            ELSE <<Head(s)>> \o RefDecodeOnce(Tail(s))

\* C27 as claimed: every character reference of a container is decoded exactly once:
\* the extracted lyrics are the one-pass decoding of its text, so that "&amp;lt;" gives
\* "&lt;" and "&amp;#39;" gives "&#39;".
C27_DecodesOnce ==
    got # None =>
        LET once == Trim(RefDecodeOnce(req.song[1]))
        IN IF once = <<>> THEN got[1].status = "threw"
           ELSE got[1] = [status |-> "returned", lyrics |-> once]

\* what does hold: a text without an escaped ampersand is decoded once
DecodesOnceWithoutAmpersandEscape ==
    (/\ got # None
     /\ ReplaceLiteral(req.song[1], <<"&", "a", "m", "p", ";">>, <<>>) = req.song[1]
     /\ ReplaceLiteral(req.song[1], <<"&", "#", "3", "8", ";">>, <<>>) = req.song[1]) =>
        LET once == Trim(RefDecodeOnce(req.song[1]))
        IN IF once = <<>> THEN got[1].status = "threw"
           ELSE got[1] = [status |-> "returned", lyrics |-> once]

----------------------------------------------------------------------------
(* Claims about the two save paths                                         *)

\* the saves of the log made for `user`, in order
RefSavesOf(log, user) ==
    LET Mine(c) == c.user = user IN SelectSeq(log, Mine)

RECURSIVE RefCountAfter(_, _)
\* the count of `word` after the saves: what their entries add up to
RefCountAfter(saves, word) ==
    IF saves = <<>> THEN 0
    ELSE RefContribution(Head(saves).entries, word) + RefCountAfter(Tail(saves), word)

RECURSIVE RefMeaningAfter(_, _, _)
\* the meaning of `word` after the saves: the last one any entry supplied
RefMeaningAfter(saves, word, old) ==
    IF saves = <<>> THEN old
    ELSE RefMeaningAfter(Tail(saves), word, RefMeaning(Head(saves).entries, word, old))

\* the synonyms of `word` after the saves: every non-empty trimmed synonym of its entries
RefSynonymsAfter(saves, word) ==
    UNION { UNION { {Trim(saves[i].entries[k].synonyms[1][n]) :
                        n \in DOMAIN saves[i].entries[k].synonyms[1]} \ {<<>>} :
                    k \in {k \in DOMAIN saves[i].entries :
                              /\ Trim(saves[i].entries[k].word) = word
                              /\ saves[i].entries[k].synonyms # <<>>} } :
            i \in DOMAIN saves }

\* the words of the saves
RefWordsOf(saves) == UNION { RefSaveWords(saves[i].entries) : i \in DOMAIN saves }

\* what a sequence of saves must leave, whatever the store
RefStoreAfter(log) ==
    [words |-> UNION { { [user |-> u, word |-> w,
                          count |-> RefCountAfter(RefSavesOf(log, u), w),
                          meaning |-> RefMeaningAfter(RefSavesOf(log, u), w, <<>>)] :
                         w \in RefWordsOf(RefSavesOf(log, u)) } : u \in {"u1", "u2"} },
     synonyms |-> UNION { UNION { { [user |-> u, word |-> w, synonym |-> syn] :
                                     syn \in RefSynonymsAfter(RefSavesOf(log, u), w) } :
                                  w \in RefWordsOf(RefSavesOf(log, u)) } : u \in {"u1", "u2"} },
     lists |-> [i \in DOMAIN log |->
                   [user |-> log[i].user, title |-> log[i].title,
                    entries |-> EntriesJson(log[i].entries)]]]

\* what the store holds, ids left out
RefStoreHeld ==
    [words |-> { [user |-> r.user, word |-> r.word, count |-> r.count, meaning |-> r.meaning] :
                   r \in userWords },
     synonyms |-> UNION { { [user |-> r.user, word |-> r.word, synonym |-> syn.synonym] :
                             r \in {r \in userWords : r.id = syn.wordId} } :
                          syn \in wordSynonyms },
     lists |-> [i \in DOMAIN vocabularyLists |->
                   [user |-> vocabularyLists[i].user, title |-> vocabularyLists[i].title,
                    entries |-> vocabularyLists[i].entries]]]

\* C30: saves made one after the other leave, on the D1 path and on the Postgres path
\* alike, the snapshots (title, entries), the counts and meanings per (user, word) and the
\* synonym sets per word that the payloads determine: from equal stores the same
\* payloads leave equal stores on both paths.
C30_SavePathsAgree ==
    /\ backend \in {"d1", "pg"}
    /\ (\A p \in {"p1", "p2"} : procs[p].st \in {"idle", "done"}) =>
          RefStoreHeld = RefStoreAfter(saveLog)

C30_Witness ==
    /\ backend = "pg"
    /\ Len(saveLog) = 2
    /\ procs["p1"].st = "done"
    /\ saveLog[1].user = "u1" /\ saveLog[2].user = "u1"
    /\ saveLog[1].entries = <<EntryAbTwice, EntryAbPadded>>
    /\ saveLog[2].entries = <<EntryAbPadded, EntryAbBare>>
    /\ \E r \in userWords : r.word = <<"a", "b">> /\ r.count = 5 /\ r.meaning = <<<<"m", "2">>>>
    /\ Cardinality(wordSynonyms) = 2

\* the same save sequence on the D1 path ends in the same store
SavePathsAgreeOnD1 ==
    ~(/\ backend = "d1"
      /\ Len(saveLog) = 2
      /\ procs["p1"].st = "done"
      /\ saveLog[1].user = "u1" /\ saveLog[2].user = "u1"
      /\ saveLog[1].entries = <<EntryAbTwice, EntryAbPadded>>
      /\ saveLog[2].entries = <<EntryAbPadded, EntryAbBare>>
      /\ ~(/\ \E r \in userWords :
                 r.word = <<"a", "b">> /\ r.count = 5 /\ r.meaning = <<<<"m", "2">>>>
           /\ Cardinality(wordSynonyms) = 2))

----------------------------------------------------------------------------
(* Claims about the protected routes                                       *)

\* the request is a POST /vocabulary/generate that got past its validation
RefGenerating == req.endpoint = "POST /vocabulary/generate" /\ trace # <<>>

\* nothing was stored for the request
RefNothingStored ==
    /\ saveLog = <<>>
    /\ vocabularyLists = <<>>
    /\ userWords = {}
    /\ wordSynonyms = {}
    /\ history = <<>>

\* no model call was made for the request
RefNoModelCall ==
    /\ pc = "idle"
    /\ calls = [stream |-> 0, structured |-> 0, fallback |-> 0]

\* C11: when searchSongs resolves to zero hits the request is answered 404 NOT_FOUND and
\* searchSongs is the only call it made: no lyrics fetch, no settings lookup, no model
\* call, no save and no history insert.
C11_NoHitsIsNotFound ==
    req.hits = Some(<<>>) =>
        /\ req.st = "done"
        /\ resp = [status |-> 404, code |-> "NOT_FOUND"]
        /\ trace = <<[kind |-> "external", op |-> "searchSongs", user |-> req.userId[1]]>>
        /\ req.song = None
        /\ got = None
        /\ RefNoModelCall
        /\ RefNothingStored

C11_Witness ==
    /\ req.hits = Some(<<>>)
    /\ req.st = "done"
    /\ resp.status = 404
    /\ req.body[1].save = Some(TRUE)
    /\ env.geminiKey # None

\* the settings lookup of the request raised
RefSettingsRaised == req.st = "done" /\ req.song # None /\ pc = "idle"

\* the model credential is absent
RefNoCredential == env.geminiKey = None \/ env.geminiKey = Some(<<>>)

C13_SavesOnlyOnRequest ==
    (RefGenerating /\ req.st = "done") =>
        /\ req.body[1].save # Some(TRUE) =>
              /\ saveLog = <<>>
              /\ vocabularyLists = <<>>
              /\ userWords = {}
              /\ wordSynonyms = {}
              /\ resp.code = "ok" => resp.data.saved = FALSE
        /\ (resp.code = "ok" /\ resp.data.saved) =>
              /\ req.body[1].save = Some(TRUE)
              /\ procs["p1"].st = "done"

\* the Authorization header carries a Bearer token that verifies and names a user
RefValidBearer(auth) ==
    /\ auth # None
    /\ auth[1].prefix = "Bearer "
    /\ auth[1].token # None
    /\ auth[1].token[1].verified
    /\ auth[1].token[1].sub \notin {None, Some("")}

\* the handler of the request did not run
RefHandlerNeverRan ==
    /\ req.userId = None
    /\ trace = <<>>
    /\ RefNoModelCall
    /\ RefNothingStored
    /\ got = None
    /\ settings \in {{}, {[user |-> "u1", language |-> "ko", level |-> "intermediate",
                           max_words |-> [t |-> "number", halves |-> 4],
                           min_length |-> [t |-> "number", halves |-> 4]]}}

\* C15 as claimed: a request without a valid Bearer JWT is answered 401 UNAUTHORIZED and
\* its handler never runs; when the handler runs its user id is the sub of the token.
C15_Unauthorized401 ==
    /\ (req.st = "done" /\ ~RefValidBearer(req.authorization)) =>
          /\ resp = [status |-> 401, code |-> "UNAUTHORIZED"]
          /\ RefHandlerNeverRan
    /\ req.userId # None => req.userId = req.authorization[1].token[1].sub

\* C15 as amended: a request without a valid Bearer JWT is answered 401 UNAUTHORIZED, or
\* 503 SERVICE_UNAVAILABLE when no JWT secret is configured (then every request is), and
\* its handler never runs: no statement, no external call, no stored row changes; when the
\* handler runs, the user id of everything it does is the sub of the verified token.
C15_NoHandlerWithoutToken ==
    /\ (req.st # "arrived" /\ env.jwtSecret = None) =>
          /\ req.st = "done"
          /\ resp = [status |-> 503, code |-> "SERVICE_UNAVAILABLE"]
          /\ RefHandlerNeverRan
    /\ (req.st # "arrived" /\ env.jwtSecret # None /\ ~RefValidBearer(req.authorization)) =>
          /\ req.st = "done"
          /\ resp = [status |-> 401, code |-> "UNAUTHORIZED"]
          /\ RefHandlerNeverRan
    /\ (req.userId # None \/ trace # <<>>) =>
          /\ env.jwtSecret # None
          /\ RefValidBearer(req.authorization)
          /\ req.userId = req.authorization[1].token[1].sub
          /\ \A i \in DOMAIN trace : trace[i].user = req.authorization[1].token[1].sub[1]
          /\ \A i \in DOMAIN history : history[i].user = req.authorization[1].token[1].sub[1]
          /\ \A i \in DOMAIN saveLog : saveLog[i].user = req.authorization[1].token[1].sub[1]
          /\ \A r \in userWords : r.user = req.authorization[1].token[1].sub[1]

C15_Witness ==
    /\ req.st = "done"
    /\ env.jwtSecret # None
    /\ env.db
    /\ req.endpoint = "POST /vocabulary/generate"
    /\ req.authorization # None
    /\ req.authorization[1].prefix = "Bearer "
    /\ req.authorization[1].token # None
    /\ ~req.authorization[1].token[1].verified
    /\ resp.status = 401

\* C28 as claimed: a request whose method and path match no route is answered 404
\* NOT_FOUND, whether or not it carries an Authorization header.
C28_UnmatchedIsNotFound ==
    (req.endpoint \in {"GET /unknown/path", "POST /user/profile"} /\ req.st = "done") =>
        resp = [status |-> 404, code |-> "NOT_FOUND"]

\* what does hold: such a request is answered 404 NOT_FOUND when it carries a valid
\* Bearer token, and as any protected request without one
UnmatchedIsNotFoundWithToken ==
    (req.endpoint \in {"GET /unknown/path", "POST /user/profile"} /\ req.st = "done") =>
        /\ trace = <<>>
        /\ resp = IF env.jwtSecret = None THEN [status |-> 503, code |-> "SERVICE_UNAVAILABLE"]
                  ELSE IF RefValidBearer(req.authorization)
                  THEN [status |-> 404, code |-> "NOT_FOUND"]
                  ELSE [status |-> 401, code |-> "UNAUTHORIZED"]

\* C29 as claimed: a generate request answered with an error left the stored state as
\* it was: no vocabulary_lists row, no user_words change, no word_synonyms row and no
\* user_music_history row was added.
C29_ErrorLeavesStoreUnchanged ==
    (req.endpoint = "POST /vocabulary/generate" /\ req.st = "done" /\ resp.code # "ok") =>
        /\ vocabularyLists = <<>>
        /\ userWords = {}
        /\ wordSynonyms = {}
        /\ history = <<>>

\* what does hold: an error never comes with a history row, and an error raised before
\* the save started comes with no stored row at all
ErrorBeforeSaveLeavesStoreUnchanged ==
    (req.endpoint = "POST /vocabulary/generate" /\ req.st = "done" /\ resp.code # "ok") =>
        /\ history = <<>>
        /\ saveLog = <<>> => (vocabularyLists = <<>> /\ userWords = {} /\ wordSynonyms = {})

----------------------------------------------------------------------------
(* Claims about the login callbacks                                        *)

RefSamePair == logins["p1"].providerUserId = logins["p2"].providerUserId

RefPairRows(rows, providerUserId) ==
    {r \in rows : r.provider = "google" /\ r.providerUserId = providerUserId}

\* C18 as claimed: of two login callbacks for the same (provider, provider_user_id) that
\* run at once both succeed with the same internal_id, exactly one reports is_new_user
\* (none when the user was stored before), one users row exists for the pair, and a
\* callback that has succeeded leaves the user with a settings row.
C18_ConcurrentLoginsAgree ==
    RefSamePair =>
        /\ \A p \in Procs : logins[p].st # "failed"
        /\ \A p \in Procs :
              logins[p].st = "done" =>
                  \E r \in settings : r.user = logins[p].result.internal_id[1]
        /\ (\A p \in Procs : logins[p].st = "done") =>
              /\ logins["p1"].result.internal_id = logins["p2"].result.internal_id
              /\ Cardinality(RefPairRows(users, logins["p1"].providerUserId)) = 1
              /\ Cardinality({p \in Procs : logins[p].result.is_new_user})
                   = IF RefPairRows(trace[1].users, logins["p1"].providerUserId) = {}
                     THEN 1 ELSE 0

\* what does hold: the pair never has two users rows, the callbacks that succeed agree
\* on the id, at most one reports a new user, and on D1 every user has a settings row
LoginsNeverDuplicate ==
    /\ \A r \in users, q \in users :
          (r.provider = q.provider /\ r.providerUserId = q.providerUserId) => r = q
    /\ (RefSamePair /\ \A p \in Procs : logins[p].st = "done") =>
          logins["p1"].result.internal_id = logins["p2"].result.internal_id
    /\ RefSamePair => Cardinality({p \in Procs : logins[p].result.is_new_user}) <= 1
    /\ backend = "d1" => \A r \in users : \E q \in settings : q.user = r.id

====
